---- MODULE Spec2Model ----
(***************************************************************************)
(* Resource facades of the Sendly Python SDK (campaigns, contacts,         *)
(* contact lists, media, verify; sync and async) over the shared transport *)
(* client.  A facade method is modelled as the sequence of statements of   *)
(* its body; the machine below executes these statements for each caller.  *)
(***************************************************************************)
EXTENDS Integers, Sequences, FiniteSets, TLC

VARIABLES
    mode,           \* "sync" (HttpClient) or "async" (AsyncHttpClient)
    api_key,        \* self._http.api_key
    client_headers, \* self._http.client.headers
    facades,        \* the facade objects of the client, with their attributes
    rate_limit,     \* the rate-limit snapshot of the client's transport
    tasks,          \* the callers (threads / asyncio tasks) using the client
    running,        \* the task holding the event loop (0: none)
    status,         \* per task: "idle", "run", "await", "returned", "raised"
    call,           \* per task: the facade invocation in progress
    ip,             \* per task: index of the next statement of the method body
    wire,           \* per task: outbound requests issued by the invocation
    response,       \* per task: the raw response (local `response` of upload)
    data,           \* per task: the parsed mapping (local `data`)
    outcome,        \* per task: what the invocation returned or raised
    transport_error,\* per task: the error the transport raised, if any
    last_headers,   \* headers of the response received last on this client
    previewed       \* ids of the campaigns whose preview has returned

vars == <<mode, facades, api_key, client_headers, rate_limit, tasks, running, status,
          call, ip, wire, response, data, outcome, transport_error,
          last_headers, previewed>>

----------------------------------------------------------------------------
(* Bounds *)

NumTasks == 2

\* optional response fields left out of (or alone present in) a response
MaxOmitted == 2

----------------------------------------------------------------------------
(* Python values *)

None == [t |-> "NoneType"]
PyStr(s) == [t |-> "str", v |-> s]
PyInt(i) == [t |-> "int", v |-> i]
PyBool(b) == [t |-> "bool", v |-> b]
PyList(s) == [t |-> "list", v |-> s]
PyDict(d) == [t |-> "dict", v |-> d]

EmptyDict == <<>>

\* Python truth value of x, as tested by `if x:`
Truthy(x) ==
    CASE x.t = "NoneType" -> FALSE
      [] x.t = "str" -> x.v # ""
      [] x.t = "int" -> x.v # 0
      [] x.t = "bool" -> x.v
      [] x.t = "list" -> Len(x.v) # 0
      [] x.t = "dict" -> DOMAIN x.v # {}

\* d[k] = v
Put(d, k, v) == [x \in (DOMAIN d) \cup {k} |-> IF x = k THEN v ELSE d[x]]

\* d.get(k, default)
Get(d, k, default) == IF k \in DOMAIN d THEN d[k] ELSE default

\* first key of the sequence keys that d lacks ("" when none): the key whose
\* subscription d[k] raises KeyError first
RECURSIVE FirstMissing(_, _)
FirstMissing(d, keys) ==
    IF keys = <<>> THEN ""
    ELSE IF Head(keys) \notin DOMAIN d THEN Head(keys)
    ELSE FirstMissing(d, Tail(keys))

----------------------------------------------------------------------------
(* Statements of a method body *)

\* self._http.request(method, path, json=json, params=params)
HttpRequest(method, path, json, params) ==
    [stmt |-> "request", method |-> method, path |-> path,
     json |-> json, params |-> params, handler |-> ""]

\* return <typed object built from data>
Transform(kind) == [stmt |-> "transform", kind |-> kind, handler |-> ""]

Return(v) == [kind |-> "return", value |-> v]
Raise(e) == [kind |-> "raise", error |-> e]

KeyError(k) == [type |-> "KeyError", key |-> k]

\* a typed response object: the keyword arguments its constructor was given
Typed(name, fields) == [type |-> name, fields |-> fields]

RECURSIVE Reshape(_, _)

\* [f(x) for x in items], f being the reshaping code named kind: the result
\* list, or the error of the first element on which f raises
RECURSIVE ListComp(_, _)
ListComp(kind, items) ==
    IF items = <<>> THEN Return(<<>>)
    ELSE LET h == Reshape(kind, Head(items).v)
         IN IF h.kind = "raise" THEN h
            ELSE LET r == ListComp(kind, Tail(items))
                 IN IF r.kind = "raise" THEN r
                    ELSE Return(<<h.value>> \o r.value)

\* getattr(file, "name", "upload")
FileName(file) == IF "name" \in DOMAIN file THEN file.name ELSE "upload"

\* self._http.client.post(path, files=files, headers=headers)
ClientPost(path, files, headers) ==
    [stmt |-> "post", method |-> "POST", path |-> path, json |-> None,
     params |-> None, files |-> files, headers |-> headers, handler |-> ""]

\* a call of a transport helper on the local `response`
HttpCall(name) == [stmt |-> name, handler |-> ""]

\* try: return MediaFile(**data) / except PydanticValidationError: raise ...
TryMediaFile == [stmt |-> "MediaFile", handler |-> "PydanticValidationError"]

\* [c.model_dump(exclude_none=True)]: the fields of c that are not None
ModelDumpExcludeNone(c) == [k \in {x \in DOMAIN c : c[x] # None} |-> c[k]]

----------------------------------------------------------------------------
(* Transport client: HttpClient / AsyncHttpClient *)

UserAgent == "sendly-python"

\* headers the transport attaches to every request it issues
HttpClient_headers ==
    ("Authorization" :> ("Bearer " \o api_key))
    @@ ("Accept" :> "application/json")
    @@ ("User-Agent" :> Get(client_headers, "User-Agent", ""))

\* the snapshot _update_rate_limit_info stores for the response headers h
HttpClient_update_rate_limit_info(h) ==
    [limit |-> h["X-RateLimit-Limit"],
     remaining |-> h["X-RateLimit-Remaining"],
     reset |-> h["X-RateLimit-Reset"]]

ErrorType(status_code) ==
    CASE status_code \in {401, 403} -> "AuthenticationError"
      [] status_code = 429 -> "RateLimitError"
      [] OTHER -> "SendlyError"

\* _parse_response: the JSON mapping of a 2xx response, a typed error otherwise
HttpClient_parse_response(r) ==
    IF r.status_code \in 200..299 THEN Return(r.body)
    ELSE Raise([type |-> ErrorType(r.status_code),
                status_code |-> r.status_code,
                code |-> Get(r.body, "code", PyStr("unknown_error")),
                message |-> Get(r.body, "message", PyStr("Request failed"))])

\* the error raised when no response arrives
NetworkError == [type |-> "NetworkError", status_code |-> 0,
                 code |-> PyStr("network_error"),
                 message |-> PyStr("connection failed")]

\* MediaFile(**data): pydantic validation of the required fields
MediaFile(d) ==
    IF {"id", "url"} \subseteq DOMAIN d THEN Return(Typed("MediaFile", d))
    ELSE Raise([type |-> "PydanticValidationError",
                missing |-> {"id", "url"} \ DOMAIN d])

\* the transport instance the client builds and hands to every facade
HttpClient == "http"

\* __init__ of CampaignsResource, VerifyResource, MediaResource and their
\* async variants: self._http = http
Resource_init(http) == [_http |-> http]

----------------------------------------------------------------------------
(* CampaignsResource (sync) *)

\* _transform_campaign that subscripts recipient_count
CampaignsResource_transform_campaign_strict(d) ==
    LET missing == FirstMissing(d, <<"id", "name", "text", "status",
                                     "recipient_count", "created_at",
                                     "updated_at">>)
    IN IF missing # "" THEN Raise(KeyError(missing))
       ELSE Return(Typed("Campaign",
              [id |-> d["id"],
               name |-> d["name"],
               text |-> d["text"],
               template_id |-> Get(d, "template_id", None),
               contact_list_ids |-> Get(d, "contact_list_ids", PyList(<<>>)),
               status |-> d["status"],
               recipient_count |-> d["recipient_count"],
               sent_count |-> Get(d, "sent_count", PyInt(0)),
               delivered_count |-> Get(d, "delivered_count", PyInt(0)),
               failed_count |-> Get(d, "failed_count", PyInt(0)),
               estimated_credits |-> Get(d, "estimated_credits", PyInt(0)),
               credits_used |-> Get(d, "credits_used", PyInt(0)),
               scheduled_at |-> Get(d, "scheduled_at", None),
               timezone |-> Get(d, "timezone", None),
               started_at |-> Get(d, "started_at", None),
               completed_at |-> Get(d, "completed_at", None),
               created_at |-> d["created_at"],
               updated_at |-> d["updated_at"]]))

CampaignsResource_transform_campaign(d) ==
    LET missing == FirstMissing(d, <<"id", "name", "text", "status",
                                     "created_at", "updated_at">>)
    IN IF missing # "" THEN Raise(KeyError(missing))
       ELSE Return(Typed("Campaign",
              [id |-> d["id"],
               name |-> d["name"],
               text |-> d["text"],
               template_id |-> Get(d, "template_id", None),
               contact_list_ids |-> Get(d, "contact_list_ids", PyList(<<>>)),
               status |-> d["status"],
               recipient_count |-> Get(d, "recipient_count", PyInt(0)),
               sent_count |-> Get(d, "sent_count", PyInt(0)),
               delivered_count |-> Get(d, "delivered_count", PyInt(0)),
               failed_count |-> Get(d, "failed_count", PyInt(0)),
               estimated_credits |-> Get(d, "estimated_credits", PyInt(0)),
               credits_used |-> Get(d, "credits_used", PyInt(0)),
               scheduled_at |-> Get(d, "scheduled_at", None),
               timezone |-> Get(d, "timezone", None),
               started_at |-> Get(d, "started_at", None),
               completed_at |-> Get(d, "completed_at", None),
               created_at |-> d["created_at"],
               updated_at |-> d["updated_at"]]))

\* create that sends the list ids under the caller-side name
CampaignsResource_create_snake(name, text, contact_list_ids, template_id) ==
    LET body0 == [name |-> name, text |-> text,
                  contact_list_ids |-> contact_list_ids]
        body == IF Truthy(template_id)
                THEN Put(body0, "templateId", template_id) ELSE body0
    IN << HttpRequest("POST", "/campaigns", PyDict(body), None),
          Transform("CampaignsResource._transform_campaign") >>

CampaignsResource_create(name, text, contact_list_ids, template_id) ==
    LET body0 == [name |-> name, text |-> text,
                  contactListIds |-> contact_list_ids]
        body == IF Truthy(template_id)
                THEN Put(body0, "templateId", template_id) ELSE body0
    IN << HttpRequest("POST", "/campaigns", PyDict(body), None),
          Transform("CampaignsResource._transform_campaign") >>

\* list whose total is the number of campaigns on the page
CampaignsResource_list_result_page_total(d) ==
    IF "campaigns" \notin DOMAIN d THEN Raise(KeyError("campaigns"))
    ELSE LET cs == ListComp("CampaignsResource._transform_campaign", d["campaigns"].v)
             missing == FirstMissing(d, <<"total", "limit", "offset">>)
         IN IF cs.kind = "raise" THEN cs
            ELSE IF missing # "" THEN Raise(KeyError(missing))
            ELSE Return(Typed("CampaignListResponse",
                   [campaigns |-> cs.value,
                    total |-> PyInt(Len(cs.value)),
                    limit |-> d["limit"],
                    offset |-> d["offset"]]))

CampaignsResource_list_result(d) ==
    IF "campaigns" \notin DOMAIN d THEN Raise(KeyError("campaigns"))
    ELSE LET cs == ListComp("CampaignsResource._transform_campaign", d["campaigns"].v)
             missing == FirstMissing(d, <<"total", "limit", "offset">>)
         IN IF cs.kind = "raise" THEN cs
            ELSE IF missing # "" THEN Raise(KeyError(missing))
            ELSE Return(Typed("CampaignListResponse",
                   [campaigns |-> cs.value,
                    total |-> d["total"],
                    limit |-> d["limit"],
                    offset |-> d["offset"]]))

\* list that tests its filters with `is not None`
CampaignsResource_list_not_none(limit, offset, status_) ==
    LET p0 == EmptyDict
        p1 == IF limit # None THEN Put(p0, "limit", limit) ELSE p0
        p2 == IF offset # None THEN Put(p1, "offset", offset) ELSE p1
        params == IF status_ # None THEN Put(p2, "status", status_) ELSE p2
    IN << HttpRequest("GET", "/campaigns", None,
                      IF Truthy(PyDict(params)) THEN PyDict(params) ELSE None),
          Transform("CampaignsResource.list") >>

CampaignsResource_list(limit, offset, status_) ==
    LET p0 == EmptyDict
        p1 == IF Truthy(limit) THEN Put(p0, "limit", limit) ELSE p0
        p2 == IF Truthy(offset) THEN Put(p1, "offset", offset) ELSE p1
        params == IF Truthy(status_) THEN Put(p2, "status", status_) ELSE p2
    IN << HttpRequest("GET", "/campaigns", None,
                      IF Truthy(PyDict(params)) THEN PyDict(params) ELSE None),
          Transform("CampaignsResource.list") >>

CampaignsResource_get(campaign_id) ==
    << HttpRequest("GET", "/campaigns/" \o campaign_id.v, None, None),
       Transform("CampaignsResource._transform_campaign") >>

\* update that tests its arguments for truth, as create does
CampaignsResource_update_truthy(campaign_id, name, text, template_id, contact_list_ids) ==
    LET b0 == EmptyDict
        b1 == IF Truthy(name) THEN Put(b0, "name", name) ELSE b0
        b2 == IF Truthy(text) THEN Put(b1, "text", text) ELSE b1
        b3 == IF Truthy(template_id)
              THEN Put(b2, "templateId", template_id) ELSE b2
        body == IF Truthy(contact_list_ids)
                THEN Put(b3, "contactListIds", contact_list_ids) ELSE b3
    IN << HttpRequest("PATCH", "/campaigns/" \o campaign_id.v,
                      PyDict(body), None),
          Transform("CampaignsResource._transform_campaign") >>

CampaignsResource_update(campaign_id, name, text, template_id, contact_list_ids) ==
    LET b0 == EmptyDict
        b1 == IF name # None THEN Put(b0, "name", name) ELSE b0
        b2 == IF text # None THEN Put(b1, "text", text) ELSE b1
        b3 == IF template_id # None
              THEN Put(b2, "templateId", template_id) ELSE b2
        body == IF contact_list_ids # None
                THEN Put(b3, "contactListIds", contact_list_ids) ELSE b3
    IN << HttpRequest("PATCH", "/campaigns/" \o campaign_id.v,
                      PyDict(body), None),
          Transform("CampaignsResource._transform_campaign") >>

CampaignsResource_delete(campaign_id) ==
    << HttpRequest("DELETE", "/campaigns/" \o campaign_id.v, None, None) >>

CampaignsResource_preview_result(d) ==
    LET missing == FirstMissing(d, <<"id", "recipient_count",
                      "estimated_segments", "estimated_credits",
                      "current_balance", "has_enough_credits">>)
    IN IF missing # "" THEN Raise(KeyError(missing))
       ELSE Return(Typed("CampaignPreview",
              [id |-> d["id"],
               recipient_count |-> d["recipient_count"],
               estimated_segments |-> d["estimated_segments"],
               estimated_credits |-> d["estimated_credits"],
               current_balance |-> d["current_balance"],
               has_enough_credits |-> d["has_enough_credits"],
               breakdown |-> Get(d, "breakdown", None)]))

CampaignsResource_preview(campaign_id) ==
    << HttpRequest("GET", "/campaigns/" \o campaign_id.v \o "/preview",
                   None, None),
       Transform("CampaignsResource.preview") >>

\* send that fetches the preview first
CampaignsResource_send_after_preview(campaign_id) ==
    << HttpRequest("GET", "/campaigns/" \o campaign_id.v \o "/preview",
                   None, None),
       HttpRequest("POST", "/campaigns/" \o campaign_id.v \o "/send",
                   None, None),
       Transform("CampaignsResource._transform_campaign") >>

\* send that remembers the campaigns it has previewed
CampaignsResource_send_remembers_preview(campaign_id) ==
    << HttpRequest("POST", "/campaigns/" \o campaign_id.v \o "/send", None,
                   IF campaign_id \in previewed
                   THEN PyDict([previewed |-> PyBool(TRUE)]) ELSE None),
       Transform("CampaignsResource._transform_campaign") >>

CampaignsResource_send(campaign_id) ==
    << HttpRequest("POST", "/campaigns/" \o campaign_id.v \o "/send",
                   None, None),
       Transform("CampaignsResource._transform_campaign") >>

CampaignsResource_schedule(campaign_id, scheduled_at, timezone) ==
    LET body0 == [scheduledAt |-> scheduled_at]
        body == IF Truthy(timezone)
                THEN Put(body0, "timezone", timezone) ELSE body0
    IN << HttpRequest("POST", "/campaigns/" \o campaign_id.v \o "/schedule",
                      PyDict(body), None),
          Transform("CampaignsResource._transform_campaign") >>

CampaignsResource_cancel(campaign_id) ==
    << HttpRequest("POST", "/campaigns/" \o campaign_id.v \o "/cancel",
                   None, None),
       Transform("CampaignsResource._transform_campaign") >>

CampaignsResource_clone(campaign_id) ==
    << HttpRequest("POST", "/campaigns/" \o campaign_id.v \o "/clone",
                   None, None),
       Transform("CampaignsResource._transform_campaign") >>

----------------------------------------------------------------------------
(* ContactListsResource (sync) *)

ContactListsResource_init(http) == [_http |-> http]

\* the projection of one member of data["contacts"]
ContactListsResource_member(c) ==
    LET missing == FirstMissing(c, <<"id", "phone_number">>)
    IN IF missing # "" THEN Raise(KeyError(missing))
       ELSE Return(PyDict([id |-> c["id"],
                           phone_number |-> c["phone_number"],
                           name |-> Get(c, "name", None),
                           email |-> Get(c, "email", None)]))

ContactListsResource_transform_list(d) ==
    LET contacts == IF "contacts" \in DOMAIN d /\ Truthy(d["contacts"])
                    THEN ListComp("ContactListsResource._transform_list.contact", d["contacts"].v)
                    ELSE Return(None)
        missing == FirstMissing(d, <<"id", "name", "created_at">>)
    IN IF contacts.kind = "raise" THEN contacts
       ELSE IF missing # "" THEN Raise(KeyError(missing))
       ELSE Return(Typed("ContactList",
              [id |-> d["id"],
               name |-> d["name"],
               description |-> Get(d, "description", None),
               contact_count |-> Get(d, "contact_count", PyInt(0)),
               created_at |-> d["created_at"],
               updated_at |-> Get(d, "updated_at", None),
               contacts |-> IF "contacts" \in DOMAIN d /\ Truthy(d["contacts"])
                            THEN PyList(contacts.value) ELSE None,
               contacts_total |-> Get(d, "contacts_total", None)]))

ContactListsResource_list_result(d) ==
    IF "lists" \notin DOMAIN d THEN Raise(KeyError("lists"))
    ELSE LET ls == ListComp("ContactListsResource._transform_list", d["lists"].v)
         IN IF ls.kind = "raise" THEN ls
            ELSE Return(Typed("ContactListsResponse", [lists |-> ls.value]))

ContactListsResource_list ==
    << HttpRequest("GET", "/contact-lists", None, None),
       Transform("ContactListsResource.list") >>

ContactListsResource_get(list_id, limit, offset) ==
    LET p0 == EmptyDict
        p1 == IF Truthy(limit) THEN Put(p0, "limit", limit) ELSE p0
        params == IF Truthy(offset) THEN Put(p1, "offset", offset) ELSE p1
    IN << HttpRequest("GET", "/contact-lists/" \o list_id.v, None,
                      IF Truthy(PyDict(params)) THEN PyDict(params) ELSE None),
          Transform("ContactListsResource._transform_list") >>

ContactListsResource_create(name, description) ==
    LET body0 == [name |-> name]
        body == IF Truthy(description)
                THEN Put(body0, "description", description) ELSE body0
    IN << HttpRequest("POST", "/contact-lists", PyDict(body), None),
          Transform("ContactListsResource._transform_list") >>

ContactListsResource_update(list_id, name, description) ==
    LET b0 == EmptyDict
        b1 == IF name # None THEN Put(b0, "name", name) ELSE b0
        body == IF description # None
                THEN Put(b1, "description", description) ELSE b1
    IN << HttpRequest("PATCH", "/contact-lists/" \o list_id.v,
                      PyDict(body), None),
          Transform("ContactListsResource._transform_list") >>

ContactListsResource_delete(list_id) ==
    << HttpRequest("DELETE", "/contact-lists/" \o list_id.v, None, None) >>

ContactListsResource_add_contacts_result(d) ==
    IF "added_count" \notin DOMAIN d THEN Raise(KeyError("added_count"))
    ELSE Return(PyDict([added_count |-> d["added_count"]]))

ContactListsResource_add_contacts(list_id, contact_ids) ==
    << HttpRequest("POST", "/contact-lists/" \o list_id.v \o "/contacts",
                   PyDict([contact_ids |-> contact_ids]), None),
       Transform("ContactListsResource.add_contacts") >>

ContactListsResource_remove_contact(list_id, contact_id) ==
    << HttpRequest("DELETE", "/contact-lists/" \o list_id.v \o "/contacts/"
                             \o contact_id.v, None, None) >>

----------------------------------------------------------------------------
(* ContactsResource (sync) *)

\* __init__ that gives the sub-facade a transport of its own
ContactsResource_init_own_transport(http) ==
    [_http |-> http, lists |-> ContactListsResource_init("http2")]

ContactsResource_init(http) ==
    [_http |-> http, lists |-> ContactListsResource_init(http)]

\* the projection of one member of data["lists"]
ContactsResource_list_ref(l) ==
    LET missing == FirstMissing(l, <<"id", "name">>)
    IN IF missing # "" THEN Raise(KeyError(missing))
       ELSE Return(PyDict([id |-> l["id"], name |-> l["name"]]))

\* _transform_contact that reads the email from the name
ContactsResource_transform_contact_email_from_name(d) ==
    LET lists == IF "lists" \in DOMAIN d /\ Truthy(d["lists"])
                 THEN ListComp("ContactsResource._transform_contact.list", d["lists"].v)
                 ELSE Return(None)
        missing == FirstMissing(d, <<"id", "phone_number", "created_at">>)
    IN IF lists.kind = "raise" THEN lists
       ELSE IF missing # "" THEN Raise(KeyError(missing))
       ELSE Return(Typed("Contact",
              [id |-> d["id"],
               phone_number |-> d["phone_number"],
               name |-> Get(d, "name", None),
               email |-> Get(d, "name", None),
               metadata |-> Get(d, "metadata", None),
               opted_out |-> Get(d, "opted_out", PyBool(FALSE)),
               created_at |-> d["created_at"],
               updated_at |-> Get(d, "updated_at", None),
               lists |-> IF "lists" \in DOMAIN d /\ Truthy(d["lists"])
                         THEN PyList(lists.value) ELSE None]))

ContactsResource_transform_contact(d) ==
    LET lists == IF "lists" \in DOMAIN d /\ Truthy(d["lists"])
                 THEN ListComp("ContactsResource._transform_contact.list", d["lists"].v)
                 ELSE Return(None)
        missing == FirstMissing(d, <<"id", "phone_number", "created_at">>)
    IN IF lists.kind = "raise" THEN lists
       ELSE IF missing # "" THEN Raise(KeyError(missing))
       ELSE Return(Typed("Contact",
              [id |-> d["id"],
               phone_number |-> d["phone_number"],
               name |-> Get(d, "name", None),
               email |-> Get(d, "email", None),
               metadata |-> Get(d, "metadata", None),
               opted_out |-> Get(d, "opted_out", PyBool(FALSE)),
               created_at |-> d["created_at"],
               updated_at |-> Get(d, "updated_at", None),
               lists |-> IF "lists" \in DOMAIN d /\ Truthy(d["lists"])
                         THEN PyList(lists.value) ELSE None]))

\* list that returns the bare collection of contacts
ContactsResource_list_result_bare(d) ==
    IF "contacts" \notin DOMAIN d THEN Raise(KeyError("contacts"))
    ELSE LET cs == ListComp("ContactsResource._transform_contact", d["contacts"].v)
         IN IF cs.kind = "raise" THEN cs
            ELSE Return(PyList(cs.value))

ContactsResource_list_result(d) ==
    IF "contacts" \notin DOMAIN d THEN Raise(KeyError("contacts"))
    ELSE LET cs == ListComp("ContactsResource._transform_contact", d["contacts"].v)
             missing == FirstMissing(d, <<"total", "limit", "offset">>)
         IN IF cs.kind = "raise" THEN cs
            ELSE IF missing # "" THEN Raise(KeyError(missing))
            ELSE Return(Typed("ContactListResponse",
                   [contacts |-> cs.value,
                    total |-> d["total"],
                    limit |-> d["limit"],
                    offset |-> d["offset"]]))

ContactsResource_list(limit, offset, search, list_id) ==
    LET p0 == EmptyDict
        p1 == IF Truthy(limit) THEN Put(p0, "limit", limit) ELSE p0
        p2 == IF Truthy(offset) THEN Put(p1, "offset", offset) ELSE p1
        p3 == IF Truthy(search) THEN Put(p2, "search", search) ELSE p2
        params == IF Truthy(list_id) THEN Put(p3, "list_id", list_id) ELSE p3
    IN << HttpRequest("GET", "/contacts", None,
                      IF Truthy(PyDict(params)) THEN PyDict(params) ELSE None),
          Transform("ContactsResource.list") >>

ContactsResource_get(contact_id) ==
    << HttpRequest("GET", "/contacts/" \o contact_id.v, None, None),
       Transform("ContactsResource._transform_contact") >>

\* create that puts `name` in the body whether or not it was supplied
ContactsResource_create_always_name(phone_number, name, email, metadata) ==
    LET b0 == [phone_number |-> phone_number]
        b1 == Put(b0, "name", name)
        b2 == IF Truthy(email) THEN Put(b1, "email", email) ELSE b1
        body == IF Truthy(metadata) THEN Put(b2, "metadata", metadata) ELSE b2
    IN << HttpRequest("POST", "/contacts", PyDict(body), None),
          Transform("ContactsResource._transform_contact") >>

ContactsResource_create(phone_number, name, email, metadata) ==
    LET b0 == [phone_number |-> phone_number]
        b1 == IF Truthy(name) THEN Put(b0, "name", name) ELSE b0
        b2 == IF Truthy(email) THEN Put(b1, "email", email) ELSE b1
        body == IF Truthy(metadata) THEN Put(b2, "metadata", metadata) ELSE b2
    IN << HttpRequest("POST", "/contacts", PyDict(body), None),
          Transform("ContactsResource._transform_contact") >>

ContactsResource_update(contact_id, name, email, metadata) ==
    LET b0 == EmptyDict
        b1 == IF name # None THEN Put(b0, "name", name) ELSE b0
        b2 == IF email # None THEN Put(b1, "email", email) ELSE b1
        body == IF metadata # None THEN Put(b2, "metadata", metadata) ELSE b2
    IN << HttpRequest("PATCH", "/contacts/" \o contact_id.v,
                      PyDict(body), None),
          Transform("ContactsResource._transform_contact") >>

ContactsResource_delete(contact_id) ==
    << HttpRequest("DELETE", "/contacts/" \o contact_id.v, None, None) >>

ContactsResource_import_contacts_result(d) ==
    LET missing == FirstMissing(d, <<"imported", "skippedDuplicates">>)
    IN IF missing # "" THEN Raise(KeyError(missing))
       ELSE Return(Typed("ImportContactsResponse",
              [imported |-> d["imported"],
               skipped_duplicates |-> d["skippedDuplicates"],
               errors |-> Get(d, "errors", PyList(<<>>)),
               total_errors |-> Get(d, "totalErrors", PyInt(0))]))

\* import_contacts that names the list id as the caller does
ContactsResource_import_contacts_snake(contacts, list_id, opted_in_at) ==
    LET b0 == [contacts |->
                 PyList([i \in DOMAIN contacts.v |->
                           PyDict(ModelDumpExcludeNone(contacts.v[i].v))])]
        b1 == IF Truthy(list_id) THEN Put(b0, "list_id", list_id) ELSE b0
        body == IF Truthy(opted_in_at)
                THEN Put(b1, "optedInAt", opted_in_at) ELSE b1
    IN << HttpRequest("POST", "/contacts/import", PyDict(body), None),
          Transform("ContactsResource.import_contacts") >>

ContactsResource_import_contacts(contacts, list_id, opted_in_at) ==
    LET b0 == [contacts |->
                 PyList([i \in DOMAIN contacts.v |->
                           PyDict(ModelDumpExcludeNone(contacts.v[i].v))])]
        b1 == IF Truthy(list_id) THEN Put(b0, "listId", list_id) ELSE b0
        body == IF Truthy(opted_in_at)
                THEN Put(b1, "optedInAt", opted_in_at) ELSE b1
    IN << HttpRequest("POST", "/contacts/import", PyDict(body), None),
          Transform("ContactsResource.import_contacts") >>

----------------------------------------------------------------------------
(* VerifyResource (sync) *)

VerifyResource_send_result(d) ==
    LET missing == FirstMissing(d, <<"id", "status", "phone", "expires_at",
                                     "sandbox">>)
    IN IF missing # "" THEN Raise(KeyError(missing))
       ELSE Return(Typed("SendVerificationResponse",
              [id |-> d["id"],
               status |-> d["status"],
               phone |-> d["phone"],
               expires_at |-> d["expires_at"],
               sandbox |-> d["sandbox"],
               sandbox_code |-> Get(d, "sandbox_code", None),
               message |-> Get(d, "message", None)]))

VerifyResource_send(to, template_id, profile_id, app_name, timeout_secs, code_length) ==
    LET b0 == [to |-> to]
        b1 == IF Truthy(template_id)
              THEN Put(b0, "template_id", template_id) ELSE b0
        b2 == IF Truthy(profile_id)
              THEN Put(b1, "profile_id", profile_id) ELSE b1
        b3 == IF Truthy(app_name) THEN Put(b2, "app_name", app_name) ELSE b2
        b4 == IF Truthy(timeout_secs)
              THEN Put(b3, "timeout_secs", timeout_secs) ELSE b3
        body == IF Truthy(code_length)
                THEN Put(b4, "code_length", code_length) ELSE b4
    IN << HttpRequest("POST", "/verify", PyDict(body), None),
          Transform("VerifyResource.send") >>

\* check that defaults remaining_attempts to zero
VerifyResource_check_result_zero(d) ==
    LET missing == FirstMissing(d, <<"id", "status", "phone">>)
    IN IF missing # "" THEN Raise(KeyError(missing))
       ELSE Return(Typed("CheckVerificationResponse",
              [id |-> d["id"],
               status |-> d["status"],
               phone |-> d["phone"],
               verified_at |-> Get(d, "verified_at", None),
               remaining_attempts |-> Get(d, "remaining_attempts", PyInt(0))]))

VerifyResource_check_result(d) ==
    LET missing == FirstMissing(d, <<"id", "status", "phone">>)
    IN IF missing # "" THEN Raise(KeyError(missing))
       ELSE Return(Typed("CheckVerificationResponse",
              [id |-> d["id"],
               status |-> d["status"],
               phone |-> d["phone"],
               verified_at |-> Get(d, "verified_at", None),
               remaining_attempts |-> Get(d, "remaining_attempts", None)]))

VerifyResource_check(verification_id, code) ==
    << HttpRequest("POST", "/verify/" \o verification_id.v \o "/check",
                   PyDict([code |-> code]), None),
       Transform("VerifyResource.check") >>

\* Verification(id=data["id"], ...), as built by get
VerifyResource_verification(d) ==
    LET missing == FirstMissing(d, <<"id", "status", "phone",
                      "delivery_status", "attempts", "max_attempts",
                      "expires_at", "created_at", "sandbox">>)
    IN IF missing # "" THEN Raise(KeyError(missing))
       ELSE Return(Typed("Verification",
              [id |-> d["id"],
               status |-> d["status"],
               phone |-> d["phone"],
               delivery_status |-> d["delivery_status"],
               attempts |-> d["attempts"],
               max_attempts |-> d["max_attempts"],
               expires_at |-> d["expires_at"],
               verified_at |-> Get(d, "verified_at", None),
               created_at |-> d["created_at"],
               sandbox |-> d["sandbox"],
               app_name |-> Get(d, "app_name", None),
               template_id |-> Get(d, "template_id", None),
               profile_id |-> Get(d, "profile_id", None)]))

\* Verification(id=v["id"], ...), as built by list for each element
VerifyResource_list_item(d) ==
    LET missing == FirstMissing(d, <<"id", "status", "phone",
                      "delivery_status", "attempts", "max_attempts",
                      "expires_at", "created_at", "sandbox">>)
    IN IF missing # "" THEN Raise(KeyError(missing))
       ELSE Return(Typed("Verification",
              [id |-> d["id"],
               status |-> d["status"],
               phone |-> d["phone"],
               delivery_status |-> d["delivery_status"],
               attempts |-> d["attempts"],
               max_attempts |-> d["max_attempts"],
               expires_at |-> d["expires_at"],
               verified_at |-> Get(d, "verified_at", None),
               created_at |-> d["created_at"],
               sandbox |-> d["sandbox"],
               app_name |-> Get(d, "app_name", None),
               template_id |-> Get(d, "template_id", None),
               profile_id |-> Get(d, "profile_id", None)]))

VerifyResource_get(verification_id) ==
    << HttpRequest("GET", "/verify/" \o verification_id.v, None, None),
       Transform("VerifyResource.get") >>

VerifyResource_list_result(d) ==
    IF "verifications" \notin DOMAIN d THEN Raise(KeyError("verifications"))
    ELSE LET vs == ListComp("VerifyResource.list.verification", d["verifications"].v)
         IN IF vs.kind = "raise" THEN vs
            ELSE IF "pagination" \notin DOMAIN d
                 THEN Raise(KeyError("pagination"))
            ELSE Return(Typed("VerificationListResponse",
                   [verifications |-> vs.value,
                    pagination |-> d["pagination"]]))

\* list that hands params over only when a filter was put into it, as the
\* other list methods do
VerifyResource_list_params_or_none(limit, status_) ==
    LET p0 == EmptyDict
        p1 == IF Truthy(limit) THEN Put(p0, "limit", limit) ELSE p0
        params == IF Truthy(status_) THEN Put(p1, "status", status_) ELSE p1
    IN << HttpRequest("GET", "/verify", None,
                      IF Truthy(PyDict(params)) THEN PyDict(params) ELSE None),
          Transform("VerifyResource.list") >>

VerifyResource_list(limit, status_) ==
    LET p0 == EmptyDict
        p1 == IF Truthy(limit) THEN Put(p0, "limit", limit) ELSE p0
        params == IF Truthy(status_) THEN Put(p1, "status", status_) ELSE p1
    IN << HttpRequest("GET", "/verify", None, PyDict(params)),
          Transform("VerifyResource.list") >>

----------------------------------------------------------------------------
(* MediaResource (sync) *)

\* upload whose try block also covers _parse_response and whose except
\* clause catches the rate-limit error
MediaResource_upload_wide_try(file, content_type) ==
    LET filename == FileName(file)
    IN << ClientPost("/media",
              [file |-> <<filename, file, content_type>>],
              ("Authorization" :> ("Bearer " \o api_key))
              @@ ("Accept" :> "application/json")
              @@ ("User-Agent" :> Get(client_headers, "User-Agent", ""))),
          HttpCall("_update_rate_limit_info"),
          [stmt |-> "_parse_response", handler |-> "RateLimitError"],
          TryMediaFile >>

\* upload that parses the response before it records the rate limit
MediaResource_upload_parse_first(file, content_type) ==
    LET filename == FileName(file)
    IN << ClientPost("/media",
              [file |-> <<filename, file, content_type>>],
              ("Authorization" :> ("Bearer " \o api_key))
              @@ ("Accept" :> "application/json")
              @@ ("User-Agent" :> Get(client_headers, "User-Agent", ""))),
          HttpCall("_parse_response"),
          HttpCall("_update_rate_limit_info"),
          TryMediaFile >>

\* upload that always declares the default content type
MediaResource_upload_fixed_type(file, content_type) ==
    LET filename == FileName(file)
    IN << ClientPost("/media",
              [file |-> <<filename, file, "image/jpeg">>],
              ("Authorization" :> ("Bearer " \o api_key))
              @@ ("Accept" :> "application/json")
              @@ ("User-Agent" :> Get(client_headers, "User-Agent", ""))),
          HttpCall("_update_rate_limit_info"),
          HttpCall("_parse_response"),
          TryMediaFile >>

\* upload that leaves the Authorization header to the client defaults
MediaResource_upload_no_auth(file, content_type) ==
    LET filename == FileName(file)
    IN << ClientPost("/media",
              [file |-> <<filename, file, content_type>>],
              ("Accept" :> "application/json")
              @@ ("User-Agent" :> Get(client_headers, "User-Agent", ""))),
          HttpCall("_update_rate_limit_info"),
          HttpCall("_parse_response"),
          TryMediaFile >>

MediaResource_upload(file, content_type) ==
    LET filename == FileName(file)
    IN << ClientPost("/media",
              [file |-> <<filename, file, content_type>>],
              ("Authorization" :> ("Bearer " \o api_key))
              @@ ("Accept" :> "application/json")
              @@ ("User-Agent" :> Get(client_headers, "User-Agent", ""))),
          HttpCall("_update_rate_limit_info"),
          HttpCall("_parse_response"),
          TryMediaFile >>

\* the error an except clause of the statement raises in place of e, or e
\* itself when the statement has no clause for it
MediaResource_upload_except(s, e) ==
    IF s.handler = e.type
    THEN [type |-> "SendlyError", code |-> "invalid_response",
          status_code |-> 200,
          message |-> <<"Invalid API response format: ", e>>]
    ELSE e

----------------------------------------------------------------------------
(* AsyncCampaignsResource (async) *)

AsyncCampaignsResource_transform_campaign(d) ==
    LET missing == FirstMissing(d, <<"id", "name", "text", "status",
                                     "created_at", "updated_at">>)
    IN IF missing # "" THEN Raise(KeyError(missing))
       ELSE Return(Typed("Campaign",
              [id |-> d["id"],
               name |-> d["name"],
               text |-> d["text"],
               template_id |-> Get(d, "template_id", None),
               contact_list_ids |-> Get(d, "contact_list_ids", PyList(<<>>)),
               status |-> d["status"],
               recipient_count |-> Get(d, "recipient_count", PyInt(0)),
               sent_count |-> Get(d, "sent_count", PyInt(0)),
               delivered_count |-> Get(d, "delivered_count", PyInt(0)),
               failed_count |-> Get(d, "failed_count", PyInt(0)),
               estimated_credits |-> Get(d, "estimated_credits", PyInt(0)),
               credits_used |-> Get(d, "credits_used", PyInt(0)),
               scheduled_at |-> Get(d, "scheduled_at", None),
               timezone |-> Get(d, "timezone", None),
               started_at |-> Get(d, "started_at", None),
               completed_at |-> Get(d, "completed_at", None),
               created_at |-> d["created_at"],
               updated_at |-> d["updated_at"]]))

AsyncCampaignsResource_create(name, text, contact_list_ids, template_id) ==
    LET body0 == [name |-> name, text |-> text,
                  contactListIds |-> contact_list_ids]
        body == IF Truthy(template_id)
                THEN Put(body0, "templateId", template_id) ELSE body0
    IN << HttpRequest("POST", "/campaigns", PyDict(body), None),
          Transform("AsyncCampaignsResource._transform_campaign") >>

AsyncCampaignsResource_list_result(d) ==
    IF "campaigns" \notin DOMAIN d THEN Raise(KeyError("campaigns"))
    ELSE LET cs == ListComp("AsyncCampaignsResource._transform_campaign", d["campaigns"].v)
             missing == FirstMissing(d, <<"total", "limit", "offset">>)
         IN IF cs.kind = "raise" THEN cs
            ELSE IF missing # "" THEN Raise(KeyError(missing))
            ELSE Return(Typed("CampaignListResponse",
                   [campaigns |-> cs.value,
                    total |-> d["total"],
                    limit |-> d["limit"],
                    offset |-> d["offset"]]))

AsyncCampaignsResource_list(limit, offset, status_) ==
    LET p0 == EmptyDict
        p1 == IF Truthy(limit) THEN Put(p0, "limit", limit) ELSE p0
        p2 == IF Truthy(offset) THEN Put(p1, "offset", offset) ELSE p1
        params == IF Truthy(status_) THEN Put(p2, "status", status_) ELSE p2
    IN << HttpRequest("GET", "/campaigns", None,
                      IF Truthy(PyDict(params)) THEN PyDict(params) ELSE None),
          Transform("AsyncCampaignsResource.list") >>

AsyncCampaignsResource_get(campaign_id) ==
    << HttpRequest("GET", "/campaigns/" \o campaign_id.v, None, None),
       Transform("AsyncCampaignsResource._transform_campaign") >>

AsyncCampaignsResource_update(campaign_id, name, text, template_id, contact_list_ids) ==
    LET b0 == EmptyDict
        b1 == IF name # None THEN Put(b0, "name", name) ELSE b0
        b2 == IF text # None THEN Put(b1, "text", text) ELSE b1
        b3 == IF template_id # None
              THEN Put(b2, "templateId", template_id) ELSE b2
        body == IF contact_list_ids # None
                THEN Put(b3, "contactListIds", contact_list_ids) ELSE b3
    IN << HttpRequest("PATCH", "/campaigns/" \o campaign_id.v,
                      PyDict(body), None),
          Transform("AsyncCampaignsResource._transform_campaign") >>

AsyncCampaignsResource_delete(campaign_id) ==
    << HttpRequest("DELETE", "/campaigns/" \o campaign_id.v, None, None) >>

AsyncCampaignsResource_preview_result(d) ==
    LET missing == FirstMissing(d, <<"id", "recipient_count",
                      "estimated_segments", "estimated_credits",
                      "current_balance", "has_enough_credits">>)
    IN IF missing # "" THEN Raise(KeyError(missing))
       ELSE Return(Typed("CampaignPreview",
              [id |-> d["id"],
               recipient_count |-> d["recipient_count"],
               estimated_segments |-> d["estimated_segments"],
               estimated_credits |-> d["estimated_credits"],
               current_balance |-> d["current_balance"],
               has_enough_credits |-> d["has_enough_credits"],
               breakdown |-> Get(d, "breakdown", None)]))

AsyncCampaignsResource_preview(campaign_id) ==
    << HttpRequest("GET", "/campaigns/" \o campaign_id.v \o "/preview",
                   None, None),
       Transform("AsyncCampaignsResource.preview") >>

AsyncCampaignsResource_send(campaign_id) ==
    << HttpRequest("POST", "/campaigns/" \o campaign_id.v \o "/send",
                   None, None),
       Transform("AsyncCampaignsResource._transform_campaign") >>

AsyncCampaignsResource_schedule(campaign_id, scheduled_at, timezone) ==
    LET body0 == [scheduledAt |-> scheduled_at]
        body == IF Truthy(timezone)
                THEN Put(body0, "timezone", timezone) ELSE body0
    IN << HttpRequest("POST", "/campaigns/" \o campaign_id.v \o "/schedule",
                      PyDict(body), None),
          Transform("AsyncCampaignsResource._transform_campaign") >>

AsyncCampaignsResource_cancel(campaign_id) ==
    << HttpRequest("POST", "/campaigns/" \o campaign_id.v \o "/cancel",
                   None, None),
       Transform("AsyncCampaignsResource._transform_campaign") >>

AsyncCampaignsResource_clone(campaign_id) ==
    << HttpRequest("POST", "/campaigns/" \o campaign_id.v \o "/clone",
                   None, None),
       Transform("AsyncCampaignsResource._transform_campaign") >>

----------------------------------------------------------------------------
(* AsyncContactListsResource (async) *)

AsyncContactListsResource_init(http) == [_http |-> http]

\* the projection of one member of data["contacts"]
AsyncContactListsResource_member(c) ==
    LET missing == FirstMissing(c, <<"id", "phone_number">>)
    IN IF missing # "" THEN Raise(KeyError(missing))
       ELSE Return(PyDict([id |-> c["id"],
                           phone_number |-> c["phone_number"],
                           name |-> Get(c, "name", None),
                           email |-> Get(c, "email", None)]))

AsyncContactListsResource_transform_list(d) ==
    LET contacts == IF "contacts" \in DOMAIN d /\ Truthy(d["contacts"])
                    THEN ListComp("AsyncContactListsResource._transform_list.contact", d["contacts"].v)
                    ELSE Return(None)
        missing == FirstMissing(d, <<"id", "name", "created_at">>)
    IN IF contacts.kind = "raise" THEN contacts
       ELSE IF missing # "" THEN Raise(KeyError(missing))
       ELSE Return(Typed("ContactList",
              [id |-> d["id"],
               name |-> d["name"],
               description |-> Get(d, "description", None),
               contact_count |-> Get(d, "contact_count", PyInt(0)),
               created_at |-> d["created_at"],
               updated_at |-> Get(d, "updated_at", None),
               contacts |-> IF "contacts" \in DOMAIN d /\ Truthy(d["contacts"])
                            THEN PyList(contacts.value) ELSE None,
               contacts_total |-> Get(d, "contacts_total", None)]))

AsyncContactListsResource_list_result(d) ==
    IF "lists" \notin DOMAIN d THEN Raise(KeyError("lists"))
    ELSE LET ls == ListComp("AsyncContactListsResource._transform_list", d["lists"].v)
         IN IF ls.kind = "raise" THEN ls
            ELSE Return(Typed("ContactListsResponse", [lists |-> ls.value]))

AsyncContactListsResource_list ==
    << HttpRequest("GET", "/contact-lists", None, None),
       Transform("AsyncContactListsResource.list") >>

AsyncContactListsResource_get(list_id, limit, offset) ==
    LET p0 == EmptyDict
        p1 == IF Truthy(limit) THEN Put(p0, "limit", limit) ELSE p0
        params == IF Truthy(offset) THEN Put(p1, "offset", offset) ELSE p1
    IN << HttpRequest("GET", "/contact-lists/" \o list_id.v, None,
                      IF Truthy(PyDict(params)) THEN PyDict(params) ELSE None),
          Transform("AsyncContactListsResource._transform_list") >>

AsyncContactListsResource_create(name, description) ==
    LET body0 == [name |-> name]
        body == IF Truthy(description)
                THEN Put(body0, "description", description) ELSE body0
    IN << HttpRequest("POST", "/contact-lists", PyDict(body), None),
          Transform("AsyncContactListsResource._transform_list") >>

AsyncContactListsResource_update(list_id, name, description) ==
    LET b0 == EmptyDict
        b1 == IF name # None THEN Put(b0, "name", name) ELSE b0
        body == IF description # None
                THEN Put(b1, "description", description) ELSE b1
    IN << HttpRequest("PATCH", "/contact-lists/" \o list_id.v,
                      PyDict(body), None),
          Transform("AsyncContactListsResource._transform_list") >>

AsyncContactListsResource_delete(list_id) ==
    << HttpRequest("DELETE", "/contact-lists/" \o list_id.v, None, None) >>

AsyncContactListsResource_add_contacts_result(d) ==
    IF "added_count" \notin DOMAIN d THEN Raise(KeyError("added_count"))
    ELSE Return(PyDict([added_count |-> d["added_count"]]))

AsyncContactListsResource_add_contacts(list_id, contact_ids) ==
    << HttpRequest("POST", "/contact-lists/" \o list_id.v \o "/contacts",
                   PyDict([contact_ids |-> contact_ids]), None),
       Transform("AsyncContactListsResource.add_contacts") >>

AsyncContactListsResource_remove_contact(list_id, contact_id) ==
    << HttpRequest("DELETE", "/contact-lists/" \o list_id.v \o "/contacts/"
                             \o contact_id.v, None, None) >>

----------------------------------------------------------------------------
(* AsyncContactsResource (async) *)

AsyncContactsResource_init(http) ==
    [_http |-> http, lists |-> AsyncContactListsResource_init(http)]

\* the projection of one member of data["lists"]
AsyncContactsResource_list_ref(l) ==
    LET missing == FirstMissing(l, <<"id", "name">>)
    IN IF missing # "" THEN Raise(KeyError(missing))
       ELSE Return(PyDict([id |-> l["id"], name |-> l["name"]]))

AsyncContactsResource_transform_contact(d) ==
    LET lists == IF "lists" \in DOMAIN d /\ Truthy(d["lists"])
                 THEN ListComp("AsyncContactsResource._transform_contact.list", d["lists"].v)
                 ELSE Return(None)
        missing == FirstMissing(d, <<"id", "phone_number", "created_at">>)
    IN IF lists.kind = "raise" THEN lists
       ELSE IF missing # "" THEN Raise(KeyError(missing))
       ELSE Return(Typed("Contact",
              [id |-> d["id"],
               phone_number |-> d["phone_number"],
               name |-> Get(d, "name", None),
               email |-> Get(d, "email", None),
               metadata |-> Get(d, "metadata", None),
               opted_out |-> Get(d, "opted_out", PyBool(FALSE)),
               created_at |-> d["created_at"],
               updated_at |-> Get(d, "updated_at", None),
               lists |-> IF "lists" \in DOMAIN d /\ Truthy(d["lists"])
                         THEN PyList(lists.value) ELSE None]))

AsyncContactsResource_list_result(d) ==
    IF "contacts" \notin DOMAIN d THEN Raise(KeyError("contacts"))
    ELSE LET cs == ListComp("AsyncContactsResource._transform_contact", d["contacts"].v)
             missing == FirstMissing(d, <<"total", "limit", "offset">>)
         IN IF cs.kind = "raise" THEN cs
            ELSE IF missing # "" THEN Raise(KeyError(missing))
            ELSE Return(Typed("ContactListResponse",
                   [contacts |-> cs.value,
                    total |-> d["total"],
                    limit |-> d["limit"],
                    offset |-> d["offset"]]))

AsyncContactsResource_list(limit, offset, search, list_id) ==
    LET p0 == EmptyDict
        p1 == IF Truthy(limit) THEN Put(p0, "limit", limit) ELSE p0
        p2 == IF Truthy(offset) THEN Put(p1, "offset", offset) ELSE p1
        p3 == IF Truthy(search) THEN Put(p2, "search", search) ELSE p2
        params == IF Truthy(list_id) THEN Put(p3, "list_id", list_id) ELSE p3
    IN << HttpRequest("GET", "/contacts", None,
                      IF Truthy(PyDict(params)) THEN PyDict(params) ELSE None),
          Transform("AsyncContactsResource.list") >>

AsyncContactsResource_get(contact_id) ==
    << HttpRequest("GET", "/contacts/" \o contact_id.v, None, None),
       Transform("AsyncContactsResource._transform_contact") >>

AsyncContactsResource_create(phone_number, name, email, metadata) ==
    LET b0 == [phone_number |-> phone_number]
        b1 == IF Truthy(name) THEN Put(b0, "name", name) ELSE b0
        b2 == IF Truthy(email) THEN Put(b1, "email", email) ELSE b1
        body == IF Truthy(metadata) THEN Put(b2, "metadata", metadata) ELSE b2
    IN << HttpRequest("POST", "/contacts", PyDict(body), None),
          Transform("AsyncContactsResource._transform_contact") >>

AsyncContactsResource_update(contact_id, name, email, metadata) ==
    LET b0 == EmptyDict
        b1 == IF name # None THEN Put(b0, "name", name) ELSE b0
        b2 == IF email # None THEN Put(b1, "email", email) ELSE b1
        body == IF metadata # None THEN Put(b2, "metadata", metadata) ELSE b2
    IN << HttpRequest("PATCH", "/contacts/" \o contact_id.v,
                      PyDict(body), None),
          Transform("AsyncContactsResource._transform_contact") >>

AsyncContactsResource_delete(contact_id) ==
    << HttpRequest("DELETE", "/contacts/" \o contact_id.v, None, None) >>

AsyncContactsResource_import_contacts_result(d) ==
    LET missing == FirstMissing(d, <<"imported", "skippedDuplicates">>)
    IN IF missing # "" THEN Raise(KeyError(missing))
       ELSE Return(Typed("ImportContactsResponse",
              [imported |-> d["imported"],
               skipped_duplicates |-> d["skippedDuplicates"],
               errors |-> Get(d, "errors", PyList(<<>>)),
               total_errors |-> Get(d, "totalErrors", PyInt(0))]))

AsyncContactsResource_import_contacts(contacts, list_id, opted_in_at) ==
    LET b0 == [contacts |->
                 PyList([i \in DOMAIN contacts.v |->
                           PyDict(ModelDumpExcludeNone(contacts.v[i].v))])]
        b1 == IF Truthy(list_id) THEN Put(b0, "listId", list_id) ELSE b0
        body == IF Truthy(opted_in_at)
                THEN Put(b1, "optedInAt", opted_in_at) ELSE b1
    IN << HttpRequest("POST", "/contacts/import", PyDict(body), None),
          Transform("AsyncContactsResource.import_contacts") >>

----------------------------------------------------------------------------
(* AsyncVerifyResource (async) *)

AsyncVerifyResource_send_result(d) ==
    LET missing == FirstMissing(d, <<"id", "status", "phone", "expires_at",
                                     "sandbox">>)
    IN IF missing # "" THEN Raise(KeyError(missing))
       ELSE Return(Typed("SendVerificationResponse",
              [id |-> d["id"],
               status |-> d["status"],
               phone |-> d["phone"],
               expires_at |-> d["expires_at"],
               sandbox |-> d["sandbox"],
               sandbox_code |-> Get(d, "sandbox_code", None),
               message |-> Get(d, "message", None)]))

AsyncVerifyResource_send(to, template_id, profile_id, app_name, timeout_secs, code_length) ==
    LET b0 == [to |-> to]
        b1 == IF Truthy(template_id)
              THEN Put(b0, "template_id", template_id) ELSE b0
        b2 == IF Truthy(profile_id)
              THEN Put(b1, "profile_id", profile_id) ELSE b1
        b3 == IF Truthy(app_name) THEN Put(b2, "app_name", app_name) ELSE b2
        b4 == IF Truthy(timeout_secs)
              THEN Put(b3, "timeout_secs", timeout_secs) ELSE b3
        body == IF Truthy(code_length)
                THEN Put(b4, "code_length", code_length) ELSE b4
    IN << HttpRequest("POST", "/verify", PyDict(body), None),
          Transform("AsyncVerifyResource.send") >>

AsyncVerifyResource_check_result(d) ==
    LET missing == FirstMissing(d, <<"id", "status", "phone">>)
    IN IF missing # "" THEN Raise(KeyError(missing))
       ELSE Return(Typed("CheckVerificationResponse",
              [id |-> d["id"],
               status |-> d["status"],
               phone |-> d["phone"],
               verified_at |-> Get(d, "verified_at", None),
               remaining_attempts |-> Get(d, "remaining_attempts", None)]))

AsyncVerifyResource_check(verification_id, code) ==
    << HttpRequest("POST", "/verify/" \o verification_id.v \o "/check",
                   PyDict([code |-> code]), None),
       Transform("AsyncVerifyResource.check") >>

\* Verification(id=data["id"], ...), as built by get
AsyncVerifyResource_verification(d) ==
    LET missing == FirstMissing(d, <<"id", "status", "phone",
                      "delivery_status", "attempts", "max_attempts",
                      "expires_at", "created_at", "sandbox">>)
    IN IF missing # "" THEN Raise(KeyError(missing))
       ELSE Return(Typed("Verification",
              [id |-> d["id"],
               status |-> d["status"],
               phone |-> d["phone"],
               delivery_status |-> d["delivery_status"],
               attempts |-> d["attempts"],
               max_attempts |-> d["max_attempts"],
               expires_at |-> d["expires_at"],
               verified_at |-> Get(d, "verified_at", None),
               created_at |-> d["created_at"],
               sandbox |-> d["sandbox"],
               app_name |-> Get(d, "app_name", None),
               template_id |-> Get(d, "template_id", None),
               profile_id |-> Get(d, "profile_id", None)]))

\* Verification(id=v["id"], ...), as built by list for each element
AsyncVerifyResource_list_item(d) ==
    LET missing == FirstMissing(d, <<"id", "status", "phone",
                      "delivery_status", "attempts", "max_attempts",
                      "expires_at", "created_at", "sandbox">>)
    IN IF missing # "" THEN Raise(KeyError(missing))
       ELSE Return(Typed("Verification",
              [id |-> d["id"],
               status |-> d["status"],
               phone |-> d["phone"],
               delivery_status |-> d["delivery_status"],
               attempts |-> d["attempts"],
               max_attempts |-> d["max_attempts"],
               expires_at |-> d["expires_at"],
               verified_at |-> Get(d, "verified_at", None),
               created_at |-> d["created_at"],
               sandbox |-> d["sandbox"],
               app_name |-> Get(d, "app_name", None),
               template_id |-> Get(d, "template_id", None),
               profile_id |-> Get(d, "profile_id", None)]))

AsyncVerifyResource_get(verification_id) ==
    << HttpRequest("GET", "/verify/" \o verification_id.v, None, None),
       Transform("AsyncVerifyResource.get") >>

AsyncVerifyResource_list_result(d) ==
    IF "verifications" \notin DOMAIN d THEN Raise(KeyError("verifications"))
    ELSE LET vs == ListComp("AsyncVerifyResource.list.verification", d["verifications"].v)
         IN IF vs.kind = "raise" THEN vs
            ELSE IF "pagination" \notin DOMAIN d
                 THEN Raise(KeyError("pagination"))
            ELSE Return(Typed("VerificationListResponse",
                   [verifications |-> vs.value,
                    pagination |-> d["pagination"]]))

\* list that passes None instead of an empty params mapping
AsyncVerifyResource_list_params_or_none(limit, status_) ==
    LET p0 == EmptyDict
        p1 == IF Truthy(limit) THEN Put(p0, "limit", limit) ELSE p0
        params == IF Truthy(status_) THEN Put(p1, "status", status_) ELSE p1
    IN << HttpRequest("GET", "/verify", None,
                      IF Truthy(PyDict(params)) THEN PyDict(params) ELSE None),
          Transform("AsyncVerifyResource.list") >>

AsyncVerifyResource_list(limit, status_) ==
    LET p0 == EmptyDict
        p1 == IF Truthy(limit) THEN Put(p0, "limit", limit) ELSE p0
        params == IF Truthy(status_) THEN Put(p1, "status", status_) ELSE p1
    IN << HttpRequest("GET", "/verify", None, PyDict(params)),
          Transform("AsyncVerifyResource.list") >>

----------------------------------------------------------------------------
(* AsyncMediaResource (async) *)

\* upload that does not record the rate limit
AsyncMediaResource_upload_no_update(file, content_type) ==
    LET filename == FileName(file)
    IN << ClientPost("/media",
              [file |-> <<filename, file, content_type>>],
              ("Authorization" :> ("Bearer " \o api_key))
              @@ ("Accept" :> "application/json")
              @@ ("User-Agent" :> Get(client_headers, "User-Agent", ""))),
          HttpCall("_parse_response"),
          TryMediaFile >>

\* upload that posts the file a second time before it records the rate limit
AsyncMediaResource_upload_reposts(file, content_type) ==
    LET filename == FileName(file)
    IN << ClientPost("/media",
              [file |-> <<filename, file, content_type>>],
              ("Authorization" :> ("Bearer " \o api_key))
              @@ ("Accept" :> "application/json")
              @@ ("User-Agent" :> Get(client_headers, "User-Agent", ""))),
          ClientPost("/media",
              [file |-> <<filename, file, content_type>>],
              ("Authorization" :> ("Bearer " \o api_key))
              @@ ("Accept" :> "application/json")
              @@ ("User-Agent" :> Get(client_headers, "User-Agent", ""))),
          HttpCall("_update_rate_limit_info"),
          HttpCall("_parse_response"),
          TryMediaFile >>

AsyncMediaResource_upload(file, content_type) ==
    LET filename == FileName(file)
    IN << ClientPost("/media",
              [file |-> <<filename, file, content_type>>],
              ("Authorization" :> ("Bearer " \o api_key))
              @@ ("Accept" :> "application/json")
              @@ ("User-Agent" :> Get(client_headers, "User-Agent", ""))),
          HttpCall("_update_rate_limit_info"),
          HttpCall("_parse_response"),
          TryMediaFile >>

\* the error an except clause of the statement raises in place of e, or e
\* itself when the statement has no clause for it
AsyncMediaResource_upload_except(s, e) ==
    IF s.handler = e.type
    THEN [type |-> "SendlyError", code |-> "invalid_response",
          status_code |-> 200,
          message |-> <<"Invalid API response format: ", e>>]
    ELSE e

----------------------------------------------------------------------------
(* Dispatch *)

\* the typed result (or the error) the named reshaping code yields for d
Reshape(kind, d) ==
    CASE kind = "CampaignsResource._transform_campaign" ->
             CampaignsResource_transform_campaign(d)
      [] kind = "CampaignsResource.list" ->
             CampaignsResource_list_result(d)
      [] kind = "CampaignsResource.preview" ->
             CampaignsResource_preview_result(d)
      [] kind = "ContactListsResource.list" ->
             ContactListsResource_list_result(d)
      [] kind = "ContactListsResource._transform_list" ->
             ContactListsResource_transform_list(d)
      [] kind = "ContactListsResource.add_contacts" ->
             ContactListsResource_add_contacts_result(d)
      [] kind = "ContactsResource.list" ->
             ContactsResource_list_result(d)
      [] kind = "ContactsResource._transform_contact" ->
             ContactsResource_transform_contact(d)
      [] kind = "ContactsResource.import_contacts" ->
             ContactsResource_import_contacts_result(d)
      [] kind = "VerifyResource.send" ->
             VerifyResource_send_result(d)
      [] kind = "VerifyResource.check" ->
             VerifyResource_check_result(d)
      [] kind = "VerifyResource.get" ->
             VerifyResource_verification(d)
      [] kind = "VerifyResource.list" ->
             VerifyResource_list_result(d)
      [] kind = "VerifyResource.list.verification" ->
             VerifyResource_list_item(d)
      [] kind = "ContactListsResource._transform_list.contact" ->
             ContactListsResource_member(d)
      [] kind = "ContactsResource._transform_contact.list" ->
             ContactsResource_list_ref(d)
      [] kind = "AsyncCampaignsResource._transform_campaign" ->
             AsyncCampaignsResource_transform_campaign(d)
      [] kind = "AsyncCampaignsResource.list" ->
             AsyncCampaignsResource_list_result(d)
      [] kind = "AsyncCampaignsResource.preview" ->
             AsyncCampaignsResource_preview_result(d)
      [] kind = "AsyncContactListsResource.list" ->
             AsyncContactListsResource_list_result(d)
      [] kind = "AsyncContactListsResource._transform_list" ->
             AsyncContactListsResource_transform_list(d)
      [] kind = "AsyncContactListsResource.add_contacts" ->
             AsyncContactListsResource_add_contacts_result(d)
      [] kind = "AsyncContactsResource.list" ->
             AsyncContactsResource_list_result(d)
      [] kind = "AsyncContactsResource._transform_contact" ->
             AsyncContactsResource_transform_contact(d)
      [] kind = "AsyncContactsResource.import_contacts" ->
             AsyncContactsResource_import_contacts_result(d)
      [] kind = "AsyncVerifyResource.send" ->
             AsyncVerifyResource_send_result(d)
      [] kind = "AsyncVerifyResource.check" ->
             AsyncVerifyResource_check_result(d)
      [] kind = "AsyncVerifyResource.get" ->
             AsyncVerifyResource_verification(d)
      [] kind = "AsyncVerifyResource.list" ->
             AsyncVerifyResource_list_result(d)
      [] kind = "AsyncVerifyResource.list.verification" ->
             AsyncVerifyResource_list_item(d)
      [] kind = "AsyncContactListsResource._transform_list.contact" ->
             AsyncContactListsResource_member(d)
      [] kind = "AsyncContactsResource._transform_contact.list" ->
             AsyncContactsResource_list_ref(d)

\* the body of the method c names, on a client built on HttpClient
SyncProgram(c) ==
    LET a == c.args IN
    CASE c.res = "campaigns" /\ c.op = "create" ->
             CampaignsResource_create(a.name, a.text, a.contact_list_ids, a.template_id)
      [] c.res = "campaigns" /\ c.op = "list" ->
             CampaignsResource_list(a.limit, a.offset, a.status)
      [] c.res = "campaigns" /\ c.op = "get" ->
             CampaignsResource_get(a.campaign_id)
      [] c.res = "campaigns" /\ c.op = "update" ->
             CampaignsResource_update(a.campaign_id, a.name, a.text, a.template_id, a.contact_list_ids)
      [] c.res = "campaigns" /\ c.op = "delete" ->
             CampaignsResource_delete(a.campaign_id)
      [] c.res = "campaigns" /\ c.op = "preview" ->
             CampaignsResource_preview(a.campaign_id)
      [] c.res = "campaigns" /\ c.op = "send" ->
             CampaignsResource_send(a.campaign_id)
      [] c.res = "campaigns" /\ c.op = "schedule" ->
             CampaignsResource_schedule(a.campaign_id, a.scheduled_at, a.timezone)
      [] c.res = "campaigns" /\ c.op = "cancel" ->
             CampaignsResource_cancel(a.campaign_id)
      [] c.res = "campaigns" /\ c.op = "clone" ->
             CampaignsResource_clone(a.campaign_id)
      [] c.res = "contacts.lists" /\ c.op = "list" ->
             ContactListsResource_list
      [] c.res = "contacts.lists" /\ c.op = "get" ->
             ContactListsResource_get(a.list_id, a.limit, a.offset)
      [] c.res = "contacts.lists" /\ c.op = "create" ->
             ContactListsResource_create(a.name, a.description)
      [] c.res = "contacts.lists" /\ c.op = "update" ->
             ContactListsResource_update(a.list_id, a.name, a.description)
      [] c.res = "contacts.lists" /\ c.op = "delete" ->
             ContactListsResource_delete(a.list_id)
      [] c.res = "contacts.lists" /\ c.op = "add_contacts" ->
             ContactListsResource_add_contacts(a.list_id, a.contact_ids)
      [] c.res = "contacts.lists" /\ c.op = "remove_contact" ->
             ContactListsResource_remove_contact(a.list_id, a.contact_id)
      [] c.res = "contacts" /\ c.op = "list" ->
             ContactsResource_list(a.limit, a.offset, a.search, a.list_id)
      [] c.res = "contacts" /\ c.op = "get" ->
             ContactsResource_get(a.contact_id)
      [] c.res = "contacts" /\ c.op = "create" ->
             ContactsResource_create(a.phone_number, a.name, a.email, a.metadata)
      [] c.res = "contacts" /\ c.op = "update" ->
             ContactsResource_update(a.contact_id, a.name, a.email, a.metadata)
      [] c.res = "contacts" /\ c.op = "delete" ->
             ContactsResource_delete(a.contact_id)
      [] c.res = "contacts" /\ c.op = "import_contacts" ->
             ContactsResource_import_contacts(a.contacts, a.list_id, a.opted_in_at)
      [] c.res = "verify" /\ c.op = "send" ->
             VerifyResource_send(a.to, a.template_id, a.profile_id, a.app_name, a.timeout_secs, a.code_length)
      [] c.res = "verify" /\ c.op = "check" ->
             VerifyResource_check(a.verification_id, a.code)
      [] c.res = "verify" /\ c.op = "get" ->
             VerifyResource_get(a.verification_id)
      [] c.res = "verify" /\ c.op = "list" ->
             VerifyResource_list(a.limit, a.status)
      [] c.res = "media" /\ c.op = "upload" ->
             MediaResource_upload(a.file, a.content_type)

\* the body of the method c names, on a client built on AsyncHttpClient
AsyncProgram(c) ==
    LET a == c.args IN
    CASE c.res = "campaigns" /\ c.op = "create" ->
             AsyncCampaignsResource_create(a.name, a.text, a.contact_list_ids, a.template_id)
      [] c.res = "campaigns" /\ c.op = "list" ->
             AsyncCampaignsResource_list(a.limit, a.offset, a.status)
      [] c.res = "campaigns" /\ c.op = "get" ->
             AsyncCampaignsResource_get(a.campaign_id)
      [] c.res = "campaigns" /\ c.op = "update" ->
             AsyncCampaignsResource_update(a.campaign_id, a.name, a.text, a.template_id, a.contact_list_ids)
      [] c.res = "campaigns" /\ c.op = "delete" ->
             AsyncCampaignsResource_delete(a.campaign_id)
      [] c.res = "campaigns" /\ c.op = "preview" ->
             AsyncCampaignsResource_preview(a.campaign_id)
      [] c.res = "campaigns" /\ c.op = "send" ->
             AsyncCampaignsResource_send(a.campaign_id)
      [] c.res = "campaigns" /\ c.op = "schedule" ->
             AsyncCampaignsResource_schedule(a.campaign_id, a.scheduled_at, a.timezone)
      [] c.res = "campaigns" /\ c.op = "cancel" ->
             AsyncCampaignsResource_cancel(a.campaign_id)
      [] c.res = "campaigns" /\ c.op = "clone" ->
             AsyncCampaignsResource_clone(a.campaign_id)
      [] c.res = "contacts.lists" /\ c.op = "list" ->
             AsyncContactListsResource_list
      [] c.res = "contacts.lists" /\ c.op = "get" ->
             AsyncContactListsResource_get(a.list_id, a.limit, a.offset)
      [] c.res = "contacts.lists" /\ c.op = "create" ->
             AsyncContactListsResource_create(a.name, a.description)
      [] c.res = "contacts.lists" /\ c.op = "update" ->
             AsyncContactListsResource_update(a.list_id, a.name, a.description)
      [] c.res = "contacts.lists" /\ c.op = "delete" ->
             AsyncContactListsResource_delete(a.list_id)
      [] c.res = "contacts.lists" /\ c.op = "add_contacts" ->
             AsyncContactListsResource_add_contacts(a.list_id, a.contact_ids)
      [] c.res = "contacts.lists" /\ c.op = "remove_contact" ->
             AsyncContactListsResource_remove_contact(a.list_id, a.contact_id)
      [] c.res = "contacts" /\ c.op = "list" ->
             AsyncContactsResource_list(a.limit, a.offset, a.search, a.list_id)
      [] c.res = "contacts" /\ c.op = "get" ->
             AsyncContactsResource_get(a.contact_id)
      [] c.res = "contacts" /\ c.op = "create" ->
             AsyncContactsResource_create(a.phone_number, a.name, a.email, a.metadata)
      [] c.res = "contacts" /\ c.op = "update" ->
             AsyncContactsResource_update(a.contact_id, a.name, a.email, a.metadata)
      [] c.res = "contacts" /\ c.op = "delete" ->
             AsyncContactsResource_delete(a.contact_id)
      [] c.res = "contacts" /\ c.op = "import_contacts" ->
             AsyncContactsResource_import_contacts(a.contacts, a.list_id, a.opted_in_at)
      [] c.res = "verify" /\ c.op = "send" ->
             AsyncVerifyResource_send(a.to, a.template_id, a.profile_id, a.app_name, a.timeout_secs, a.code_length)
      [] c.res = "verify" /\ c.op = "check" ->
             AsyncVerifyResource_check(a.verification_id, a.code)
      [] c.res = "verify" /\ c.op = "get" ->
             AsyncVerifyResource_get(a.verification_id)
      [] c.res = "verify" /\ c.op = "list" ->
             AsyncVerifyResource_list(a.limit, a.status)
      [] c.res = "media" /\ c.op = "upload" ->
             AsyncMediaResource_upload(a.file, a.content_type)

----------------------------------------------------------------------------
(* Arguments the callers pass *)

ApiKeys == {"sk_live_v1_a", "sk_test_v1_b"}

\* an Optional[str] argument: left at None, empty, or the value v
OptStr(v) == {None, PyStr(""), PyStr(v)}

\* an Optional[Dict] argument: left at None, empty, or one entry
OptMetadata == {None, PyDict(EmptyDict), PyDict([plan |-> PyStr("pro")])}

\* an Optional[int] argument: left at None, zero, or the value n
OptInt(n) == {None, PyInt(0), PyInt(n)}

CampaignId == PyStr("cmp_1")
ContactId == PyStr("cnt_1")
ListId == PyStr("lst_1")
VerificationId == PyStr("ver_1")

\* ImportContactItem objects: optional fields left unset are None
ImportItems ==
    {PyList(<<PyDict([phone |-> PyStr("+15551234567"), name |-> None,
                      email |-> None])>>),
     PyList(<<PyDict([phone |-> PyStr("+15551234567"),
                      name |-> PyStr("John"), email |-> None]),
              PyDict([phone |-> PyStr("+15557654321"), name |-> None,
                      email |-> PyStr("j@example.com")])>>)}

Invocation(res, op, args) == [res |-> res, op |-> op, args |-> args]

CampaignsCalls ==
    {Invocation("campaigns", "create",
        [name |-> PyStr("Welcome"), text |-> PyStr("Hello {{name}}!"),
         contact_list_ids |-> l, template_id |-> tp]) :
        l \in {PyList(<<PyStr("lst_1")>>),
               PyList(<<PyStr("lst_1"), PyStr("lst_2")>>)},
        tp \in OptStr("tpl_1")}
    \cup {Invocation("campaigns", "list",
            [limit |-> l, offset |-> o, status |-> s]) :
            l \in OptInt(10), o \in OptInt(20), s \in OptStr("draft")}
    \cup {Invocation("campaigns", "update",
            [campaign_id |-> CampaignId, name |-> n, text |-> x,
             template_id |-> tp, contact_list_ids |-> l]) :
            n \in OptStr("Welcome"), x \in OptStr("Hello {{name}}!"), tp \in OptStr("tpl_1"),
            l \in {None, PyList(<<>>), PyList(<<PyStr("lst_1")>>)}}
    \cup {Invocation("campaigns", "schedule",
            [campaign_id |-> CampaignId,
             scheduled_at |-> PyStr("2025-06-01T09:00:00Z"),
             timezone |-> tz]) : tz \in OptStr("America/New_York")}
    \cup {Invocation("campaigns", op, [campaign_id |-> CampaignId]) :
            op \in {"get", "delete", "preview", "send", "cancel", "clone"}}

ContactListsCalls ==
    {Invocation("contacts.lists", "list", EmptyDict)}
    \cup {Invocation("contacts.lists", "get",
            [list_id |-> ListId, limit |-> l, offset |-> o]) :
            l \in OptInt(10), o \in OptInt(20)}
    \cup {Invocation("contacts.lists", "create",
            [name |-> PyStr("VIP"), description |-> d]) :
            d \in OptStr("VIP customers")}
    \cup {Invocation("contacts.lists", "update",
            [list_id |-> ListId, name |-> n, description |-> d]) :
            n \in OptStr("Welcome"), d \in OptStr("VIP customers")}
    \cup {Invocation("contacts.lists", "delete", [list_id |-> ListId])}
    \cup {Invocation("contacts.lists", "add_contacts",
            [list_id |-> ListId, contact_ids |-> ids]) :
            ids \in {PyList(<<>>), PyList(<<ContactId>>)}}
    \cup {Invocation("contacts.lists", "remove_contact",
            [list_id |-> ListId, contact_id |-> ContactId])}

ContactsCalls ==
    {Invocation("contacts", "list",
        [limit |-> l, offset |-> o, search |-> s, list_id |-> li]) :
        l \in OptInt(10), o \in OptInt(20), s \in OptStr("john"), li \in OptStr("lst_1")}
    \cup {Invocation("contacts", "create",
            [phone_number |-> PyStr("+15551234567"), name |-> n,
             email |-> e, metadata |-> m]) :
            n \in OptStr("Welcome"), e \in OptStr("john@example.com"), m \in OptMetadata}
    \cup {Invocation("contacts", "update",
            [contact_id |-> ContactId, name |-> n, email |-> e,
             metadata |-> m]) :
            n \in OptStr("Welcome"), e \in OptStr("john@example.com"), m \in OptMetadata}
    \cup {Invocation("contacts", op, [contact_id |-> ContactId]) :
            op \in {"get", "delete"}}
    \cup {Invocation("contacts", "import_contacts",
            [contacts |-> cs, list_id |-> li, opted_in_at |-> oi]) :
            cs \in ImportItems, li \in OptStr("lst_1"), oi \in OptStr("2025-01-01T00:00:00Z")}

VerifyCalls ==
    {Invocation("verify", "send",
        [to |-> PyStr("+15551234567"), template_id |-> tp,
         profile_id |-> pr, app_name |-> an, timeout_secs |-> ts,
         code_length |-> cl]) :
        tp \in OptStr("tpl_1"), pr \in OptStr("prf_1"), an \in OptStr("Acme"),
        ts \in OptInt(300), cl \in OptInt(6)}
    \cup {Invocation("verify", "check",
            [verification_id |-> VerificationId, code |-> PyStr("123456")])}
    \cup {Invocation("verify", "get", [verification_id |-> VerificationId])}
    \cup {Invocation("verify", "list", [limit |-> l, status |-> s]) :
            l \in OptInt(10), s \in OptStr("draft")}

JsonCalls == CampaignsCalls \cup ContactListsCalls \cup ContactsCalls
             \cup VerifyCalls

Files == {[content |-> "JFIF"], [name |-> "photo.jpg", content |-> "JFIF"]}
ContentTypes == {"image/jpeg", "image/png"}

MediaCalls ==
    {Invocation("media", "upload", [file |-> f, content_type |-> ct]) :
        f \in Files, ct \in ContentTypes}

----------------------------------------------------------------------------
(* Responses of the remote service *)

RateLimitHeaders(limit, remaining, reset) ==
    ("X-RateLimit-Limit" :> limit) @@ ("X-RateLimit-Remaining" :> remaining)
    @@ ("X-RateLimit-Reset" :> reset)

HeaderSets == {RateLimitHeaders(100, 99, 60), RateLimitHeaders(200, 0, 30)}

Without(d, k) == [x \in (DOMAIN d) \ {k} |-> d[x]]

CampaignMin ==
    [id |-> PyStr("cmp_1"), name |-> PyStr("Welcome"),
     text |-> PyStr("Hello {{name}}!"), status |-> PyStr("draft"),
     created_at |-> PyStr("2025-01-01T00:00:00Z"),
     updated_at |-> PyStr("2025-01-02T00:00:00Z")]
CampaignFull ==
    CampaignMin @@
    [template_id |-> PyStr("tpl_1"),
     contact_list_ids |-> PyList(<<PyStr("lst_1")>>),
     recipient_count |-> PyInt(5), sent_count |-> PyInt(4),
     delivered_count |-> PyInt(3), failed_count |-> PyInt(1),
     estimated_credits |-> PyInt(5), credits_used |-> PyInt(4),
     scheduled_at |-> PyStr("2025-06-01T09:00:00Z"),
     timezone |-> PyStr("America/New_York"),
     started_at |-> PyStr("2025-06-01T09:00:01Z"),
     completed_at |-> PyStr("2025-06-01T09:05:00Z"),
     owner |-> PyStr("org_1")]

ContactListMin ==
    [id |-> PyStr("lst_1"), name |-> PyStr("VIP"),
     created_at |-> PyStr("2025-01-01T00:00:00Z")]
ContactListFull ==
    ContactListMin @@
    [description |-> PyStr("VIP customers"), contact_count |-> PyInt(1),
     updated_at |-> PyStr("2025-01-02T00:00:00Z"),
     contacts |-> PyList(<<PyDict([id |-> PyStr("cnt_1"),
                                   phone_number |-> PyStr("+15551234567"),
                                   name |-> PyStr("John"),
                                   opted_out |-> PyBool(FALSE)])>>),
     contacts_total |-> PyInt(1),
     owner |-> PyStr("org_1")]

ContactMin ==
    [id |-> PyStr("cnt_1"), phone_number |-> PyStr("+15551234567"),
     created_at |-> PyStr("2025-01-01T00:00:00Z")]
ContactFull ==
    ContactMin @@
    [name |-> PyStr("John"), email |-> PyStr("john@example.com"),
     metadata |-> PyDict([plan |-> PyStr("pro")]),
     opted_out |-> PyBool(TRUE),
     updated_at |-> PyStr("2025-01-02T00:00:00Z"),
     lists |-> PyList(<<PyDict([id |-> PyStr("lst_1"),
                                name |-> PyStr("VIP"),
                                contact_count |-> PyInt(1)])>>),
     owner |-> PyStr("org_1")]

VerificationMin ==
    [id |-> PyStr("ver_1"), status |-> PyStr("pending"),
     phone |-> PyStr("+15551234567"), delivery_status |-> PyStr("sent"),
     attempts |-> PyInt(0), max_attempts |-> PyInt(3),
     expires_at |-> PyStr("2025-01-01T00:05:00Z"),
     created_at |-> PyStr("2025-01-01T00:00:00Z"),
     sandbox |-> PyBool(FALSE)]
VerificationFull ==
    VerificationMin @@
    [verified_at |-> PyStr("2025-01-01T00:01:00Z"),
     app_name |-> PyStr("Acme"), template_id |-> PyStr("tpl_1"),
     profile_id |-> PyStr("prf_1"), remaining_attempts |-> PyInt(0),
     sandbox_code |-> PyStr("123456"), message |-> PyStr("sent"),
     owner |-> PyStr("org_1")]

PreviewMin ==
    [id |-> PyStr("cmp_1"), recipient_count |-> PyInt(5),
     estimated_segments |-> PyInt(5), estimated_credits |-> PyInt(5),
     current_balance |-> PyInt(100), has_enough_credits |-> PyBool(TRUE)]

Page(key, items) ==
    (key :> PyList(items)) @@
    [total |-> PyInt(7), limit |-> PyInt(10), offset |-> PyInt(0)]

\* the JSON mappings the service may answer the invocation c with
Bodies(c) ==
    CASE c.res = "campaigns"
         /\ c.op \in {"create", "get", "update", "send", "schedule",
                      "cancel", "clone"} ->
           {CampaignMin, CampaignFull, Without(CampaignMin, "status")}
      [] c.res = "campaigns" /\ c.op = "list" ->
           {Page("campaigns", <<>>),
            Page("campaigns", <<PyDict(CampaignFull),
                  PyDict([CampaignMin EXCEPT !.id = PyStr("cmp_2")])>>),
            Without(Page("campaigns", <<PyDict(CampaignMin)>>), "total")}
      [] c.res = "campaigns" /\ c.op = "preview" ->
           {PreviewMin, PreviewMin @@ [breakdown |-> PyDict([us |-> PyInt(5)])],
            Without(PreviewMin, "current_balance")}
      [] c.res = "contacts.lists" /\ c.op = "list" ->
           {[lists |-> PyList(<<>>)],
            [lists |-> PyList(<<PyDict([ContactListMin EXCEPT
                                          !.id = PyStr("lst_2")]),
                                PyDict(ContactListFull)>>)],
            EmptyDict}
      [] c.res = "contacts.lists" /\ c.op \in {"get", "create", "update"} ->
           {ContactListMin, ContactListFull, Without(ContactListMin, "id")}
      [] c.res = "contacts.lists" /\ c.op = "add_contacts" ->
           {[added_count |-> PyInt(1)], EmptyDict}
      [] c.res = "contacts" /\ c.op = "list" ->
           {Page("contacts", <<>>),
            Page("contacts", <<PyDict([ContactMin EXCEPT !.id = PyStr("cnt_2")]),
                               PyDict(ContactFull)>>),
            Without(Page("contacts", <<PyDict(ContactMin)>>), "offset")}
      [] c.res = "contacts" /\ c.op \in {"get", "create", "update"} ->
           {ContactMin, ContactFull, Without(ContactMin, "created_at")}
      [] c.res = "contacts" /\ c.op = "import_contacts" ->
           {[imported |-> PyInt(2), skippedDuplicates |-> PyInt(0)],
            [imported |-> PyInt(1), skippedDuplicates |-> PyInt(1),
             errors |-> PyList(<<PyDict([index |-> PyInt(0)])>>),
             totalErrors |-> PyInt(1)],
            [imported |-> PyInt(2)]}
      [] c.res = "verify" /\ c.op \in {"send", "check", "get"} ->
           {VerificationMin, VerificationFull,
            Without(VerificationMin, "phone")}
      [] c.res = "verify" /\ c.op = "list" ->
           {[verifications |-> PyList(<<>>),
             pagination |-> PyDict([limit |-> PyInt(10)])],
            [verifications |->
               PyList(<<PyDict(VerificationFull),
                        PyDict([VerificationMin EXCEPT
                                  !.id = PyStr("ver_2")])>>),
             pagination |-> PyDict([total |-> PyInt(7), limit |-> PyInt(10),
                                    offset |-> PyInt(0)])],
            [verifications |-> PyList(<<PyDict(VerificationMin)>>)]}
      [] c.res = "media" ->
           {[id |-> PyStr("med_1"), url |-> PyStr("https://cdn/med_1")],
            [id |-> PyStr("med_1")]}
      [] OTHER -> {EmptyDict}

ErrorBodies(status_code) ==
    CASE status_code = 401 ->
           [code |-> PyStr("invalid_key"), message |-> PyStr("bad key")]
      [] status_code = 429 ->
           [code |-> PyStr("rate_limit_exceeded"),
            message |-> PyStr("slow down")]
      [] OTHER -> EmptyDict

Responses(c) ==
    {[status_code |-> 200, headers |-> h, body |-> b] :
        h \in HeaderSets, b \in Bodies(c)}
    \cup {[status_code |-> s, headers |-> h, body |-> ErrorBodies(s)] :
            s \in {401, 429, 500}, h \in HeaderSets}

----------------------------------------------------------------------------
(* Execution of a method body *)

Tasks == 1..NumTasks

Program(t) ==
    IF mode = "sync" THEN SyncProgram(call[t]) ELSE AsyncProgram(call[t])

\* self._http of the facade the invocation c is made on
Http(c) ==
    IF c.res = "contacts.lists" THEN facades.contacts.lists._http
    ELSE facades[c.res]._http

AtStmt(t, name) ==
    /\ t \in tasks
    /\ status[t] = "run"
    /\ running = t
    /\ ip[t] <= Len(Program(t))
    /\ Program(t)[ip[t]].stmt = name

Awaiting(t, name) ==
    /\ t \in tasks
    /\ status[t] = "await"
    /\ running = 0
    /\ Program(t)[ip[t]].stmt = name

\* the error that leaves the method when statement s raises e
Propagate(s, e) ==
    IF mode = "sync" THEN MediaResource_upload_except(s, e)
    ELSE AsyncMediaResource_upload_except(s, e)

Invoke(t, c) ==
    /\ t \in tasks
    /\ status[t] = "idle"
    /\ running = 0
    /\ running' = t
    /\ status' = [status EXCEPT ![t] = "run"]
    /\ call' = [call EXCEPT ![t] = c]
    /\ ip' = [ip EXCEPT ![t] = 1]
    /\ UNCHANGED <<previewed, mode, facades, api_key, client_headers, rate_limit, tasks, wire,
                   response, data, outcome, transport_error, last_headers>>

InvokeJson(t) == \E c \in JsonCalls : Invoke(t, c)

InvokeUpload(t) == \E c \in MediaCalls : Invoke(t, c)

\* self._http.request(...): the transport sends the request and the caller
\* waits for the response
IssueRequest(t) ==
    /\ AtStmt(t, "request")
    /\ LET s == Program(t)[ip[t]]
       IN wire' = [wire EXCEPT ![t] = Append(@,
              [method |-> s.method, path |-> s.path, json |-> s.json,
               params |-> s.params, files |-> None,
               headers |-> HttpClient_headers, http |-> Http(call[t])])]
    /\ status' = [status EXCEPT ![t] = "await"]
    /\ running' = 0
    /\ UNCHANGED <<previewed, mode, facades, api_key, client_headers, rate_limit, tasks, call, ip,
                   response, data, outcome, transport_error, last_headers>>

\* self._http.client.post(...): the facade sends the request itself
IssuePost(t) ==
    /\ AtStmt(t, "post")
    /\ LET s == Program(t)[ip[t]]
       IN wire' = [wire EXCEPT ![t] = Append(@,
              [method |-> s.method, path |-> s.path, json |-> s.json,
               params |-> s.params, files |-> s.files,
               headers |-> s.headers, http |-> Http(call[t])])]
    /\ status' = [status EXCEPT ![t] = "await"]
    /\ running' = 0
    /\ UNCHANGED <<previewed, mode, facades, api_key, client_headers, rate_limit, tasks, call, ip,
                   response, data, outcome, transport_error, last_headers>>

\* a statement of task t raised e
Raises(t, e) ==
    /\ status' = [status EXCEPT ![t] = "raised"]
    /\ outcome' = [outcome EXCEPT ![t] = Raise(Propagate(Program(t)[ip[t]], e))]

\* a response to request(): the transport records the rate limit, parses the
\* response and hands the mapping (or raises the typed error) to the facade
RespondRequest(t) ==
    /\ Awaiting(t, "request")
    /\ \E r \in Responses(call[t]) :
         LET p == HttpClient_parse_response(r)
         IN /\ rate_limit' = IF Http(call[t]) = HttpClient
                             THEN HttpClient_update_rate_limit_info(r.headers)
                             ELSE rate_limit
            /\ last_headers' = r.headers
            /\ IF p.kind = "raise"
               THEN /\ Raises(t, p.error)
                    /\ transport_error' =
                         [transport_error EXCEPT ![t] = p.error]
                    /\ UNCHANGED <<data, ip>>
               ELSE /\ data' = [data EXCEPT ![t] = p.value]
                    /\ ip' = [ip EXCEPT ![t] = @ + 1]
                    /\ status' = [status EXCEPT ![t] = "run"]
                    /\ UNCHANGED <<outcome, transport_error>>
    /\ running' = t
    /\ UNCHANGED <<previewed, mode, facades, api_key, client_headers, tasks, call, wire, response>>

\* a response to client.post(): bound to the local `response`
RespondPost(t) ==
    /\ Awaiting(t, "post")
    /\ \E r \in Responses(call[t]) :
         /\ response' = [response EXCEPT ![t] = r]
         /\ last_headers' = r.headers
    /\ ip' = [ip EXCEPT ![t] = @ + 1]
    /\ status' = [status EXCEPT ![t] = "run"]
    /\ running' = t
    /\ UNCHANGED <<previewed, mode, facades, api_key, client_headers, rate_limit, tasks, call,
                   wire, data, outcome, transport_error>>

\* no response arrives: the pending call raises
NetworkFail(t) ==
    /\ t \in tasks
    /\ status[t] = "await"
    /\ running = 0
    /\ Raises(t, NetworkError)
    /\ transport_error' = [transport_error EXCEPT ![t] = NetworkError]
    /\ running' = t
    /\ UNCHANGED <<previewed, mode, facades, api_key, client_headers, rate_limit, tasks, call, ip,
                   wire, response, data, last_headers>>

\* self._http._update_rate_limit_info(response.headers)
UpdateRateLimit(t) ==
    /\ AtStmt(t, "_update_rate_limit_info")
    /\ rate_limit' =
         IF Http(call[t]) = HttpClient
         THEN HttpClient_update_rate_limit_info(response[t].headers)
         ELSE rate_limit
    /\ ip' = [ip EXCEPT ![t] = @ + 1]
    /\ UNCHANGED <<previewed, mode, facades, api_key, client_headers, tasks, running, status,
                   call, wire, response, data, outcome, transport_error,
                   last_headers>>

\* data = self._http._parse_response(response)
ParseResponse(t) ==
    /\ AtStmt(t, "_parse_response")
    /\ LET p == HttpClient_parse_response(response[t])
       IN IF p.kind = "raise"
          THEN /\ Raises(t, p.error)
               /\ transport_error' = [transport_error EXCEPT ![t] = p.error]
               /\ UNCHANGED <<data, ip>>
          ELSE /\ data' = [data EXCEPT ![t] = p.value]
               /\ ip' = [ip EXCEPT ![t] = @ + 1]
               /\ UNCHANGED <<status, outcome, transport_error>>
    /\ UNCHANGED <<previewed, mode, facades, api_key, client_headers, rate_limit, tasks, running,
                   call, wire, response, last_headers>>

\* return <typed object>: the reshaping of `data`
TransformStep(t) ==
    /\ AtStmt(t, "transform")
    /\ LET o == Reshape(Program(t)[ip[t]].kind, data[t])
       IN IF o.kind = "raise"
          THEN Raises(t, o.error)
          ELSE /\ outcome' = [outcome EXCEPT ![t] = o]
               /\ status' = [status EXCEPT ![t] = "returned"]
    /\ UNCHANGED <<previewed, mode, facades, api_key, client_headers, rate_limit, tasks, running,
                   call, ip, wire, response, data, transport_error,
                   last_headers>>

\* try: return MediaFile(**data) except PydanticValidationError ...
MediaFileStep(t) ==
    /\ AtStmt(t, "MediaFile")
    /\ LET o == MediaFile(data[t])
       IN IF o.kind = "raise"
          THEN Raises(t, o.error)
          ELSE /\ outcome' = [outcome EXCEPT ![t] = o]
               /\ status' = [status EXCEPT ![t] = "returned"]
    /\ UNCHANGED <<previewed, mode, facades, api_key, client_headers, rate_limit, tasks, running,
                   call, ip, wire, response, data, transport_error,
                   last_headers>>

\* the body ends without a return statement: the method returns None
EndOfBody(t) ==
    /\ t \in tasks
    /\ status[t] = "run"
    /\ running = t
    /\ ip[t] > Len(Program(t))
    /\ outcome' = [outcome EXCEPT ![t] = Return(None)]
    /\ status' = [status EXCEPT ![t] = "returned"]
    /\ UNCHANGED <<previewed, mode, facades, api_key, client_headers, rate_limit, tasks, running,
                   call, ip, wire, response, data, transport_error,
                   last_headers>>

\* the caller has the result (or the error); the frame of the call is gone
Finish(t) ==
    /\ t \in tasks
    /\ status[t] \in {"returned", "raised"}
    /\ running = t
    /\ running' = 0
    /\ status' = [status EXCEPT ![t] = "idle"]
    /\ call' = [call EXCEPT ![t] = None]
    /\ ip' = [ip EXCEPT ![t] = 0]
    /\ wire' = [wire EXCEPT ![t] = <<>>]
    /\ response' = [response EXCEPT ![t] = None]
    /\ data' = [data EXCEPT ![t] = None]
    /\ outcome' = [outcome EXCEPT ![t] = None]
    /\ transport_error' = [transport_error EXCEPT ![t] = None]
    /\ previewed' =
         IF call[t].res = "campaigns" /\ call[t].op = "preview"
            /\ status[t] = "returned"
         THEN previewed \cup {call[t].args.campaign_id}
         ELSE previewed
    /\ UNCHANGED <<mode, facades, api_key, client_headers, rate_limit, tasks,
                   last_headers>>

----------------------------------------------------------------------------
(* Specifications *)

\* the client builds its facades around the one transport
Facades ==
    [campaigns |-> Resource_init(HttpClient),
     contacts |-> IF mode = "sync" THEN ContactsResource_init(HttpClient)
                  ELSE AsyncContactsResource_init(HttpClient),
     verify |-> Resource_init(HttpClient),
     media |-> Resource_init(HttpClient)]

InitClient ==
    /\ facades = Facades
    /\ api_key \in ApiKeys
    /\ client_headers = ("User-Agent" :> UserAgent)
    /\ rate_limit = None
    /\ running = 0
    /\ status = [t \in Tasks |-> "idle"]
    /\ call = [t \in Tasks |-> None]
    /\ ip = [t \in Tasks |-> 0]
    /\ wire = [t \in Tasks |-> <<>>]
    /\ response = [t \in Tasks |-> None]
    /\ data = [t \in Tasks |-> None]
    /\ outcome = [t \in Tasks |-> None]
    /\ transport_error = [t \in Tasks |-> None]
    /\ last_headers = None
    /\ previewed = {}

\* one caller on a sync or an async client, using every facade
Init ==
    /\ mode \in {"sync", "async"}
    /\ tasks = {1}
    /\ InitClient

Next ==
    \E t \in Tasks :
        \/ InvokeJson(t)
        \/ InvokeUpload(t)
        \/ IssueRequest(t)
        \/ IssuePost(t)
        \/ RespondRequest(t)
        \/ RespondPost(t)
        \/ NetworkFail(t)
        \/ UpdateRateLimit(t)
        \/ ParseResponse(t)
        \/ TransformStep(t)
        \/ MediaFileStep(t)
        \/ EndOfBody(t)
        \/ Finish(t)

Spec == Init /\ [][Next]_vars

\* several asyncio tasks uploading media on one async client
InitUploads ==
    /\ mode = "async"
    /\ tasks = Tasks
    /\ InitClient

NextUploads ==
    \E t \in Tasks :
        \/ InvokeUpload(t)
        \/ IssuePost(t)
        \/ RespondPost(t)
        \/ NetworkFail(t)
        \/ UpdateRateLimit(t)
        \/ ParseResponse(t)
        \/ MediaFileStep(t)
        \/ Finish(t)

SpecUploads == InitUploads /\ [][NextUploads]_vars

----------------------------------------------------------------------------
(* Responses holding any subset of their fields *)

\* the subsets of S that leave out at most n elements, or hold at most n
NearSubsets(S, n) ==
    {T \in SUBSET S : Cardinality(S \ T) <= n \/ Cardinality(T) <= n}

\* one invocation for each typed object a method builds from `data`
ReshapeCalls ==
    {Invocation("campaigns", op, [campaign_id |-> CampaignId]) :
        op \in {"get", "preview"}}
    \cup {Invocation("contacts.lists", "get",
            [list_id |-> ListId, limit |-> None, offset |-> None]),
          Invocation("contacts.lists", "add_contacts",
            [list_id |-> ListId, contact_ids |-> PyList(<<ContactId>>)]),
          Invocation("contacts", "get", [contact_id |-> ContactId]),
          Invocation("contacts", "import_contacts",
            [contacts |-> PyList(<<PyDict([phone |-> PyStr("+15551234567"),
                                           name |-> None, email |-> None])>>),
             list_id |-> None, opted_in_at |-> None]),
          Invocation("verify", "send",
            [to |-> PyStr("+15551234567"), template_id |-> None,
             profile_id |-> None, app_name |-> None, timeout_secs |-> None,
             code_length |-> None]),
          Invocation("verify", "check",
            [verification_id |-> VerificationId, code |-> PyStr("123456")]),
          Invocation("verify", "get", [verification_id |-> VerificationId])}

\* the JSON mappings the service may answer c with: the documented fields of
\* the object, of which at most one of the always-sent ones is missing and
\* the others are present or not; a nested collection may also be empty or
\* hold a member without its own fields
ShapeBodies(c) ==
    LET min == CASE c.res = "campaigns" /\ c.op = "get" -> CampaignMin
                 [] c.res = "campaigns" /\ c.op = "preview" -> PreviewMin
                 [] c.res = "contacts.lists" /\ c.op = "get" -> ContactListMin
                 [] c.res = "contacts.lists" /\ c.op = "add_contacts" ->
                      [added_count |-> PyInt(1)]
                 [] c.res = "contacts" /\ c.op = "get" -> ContactMin
                 [] c.res = "contacts" /\ c.op = "import_contacts" ->
                      [imported |-> PyInt(1), skippedDuplicates |-> PyInt(1)]
                 [] c.res = "verify" -> VerificationMin
        rest == CASE c.res = "campaigns" /\ c.op = "get" -> CampaignFull
                  [] c.res = "campaigns" /\ c.op = "preview" ->
                       [breakdown |-> PyDict([us |-> PyInt(5)]),
                        owner |-> PyStr("org_1")]
                  [] c.res = "contacts.lists" /\ c.op = "get" ->
                       ContactListFull
                  [] c.res = "contacts.lists" /\ c.op = "add_contacts" ->
                       [owner |-> PyStr("org_1")]
                  [] c.res = "contacts" /\ c.op = "get" -> ContactFull
                  [] c.res = "contacts" /\ c.op = "import_contacts" ->
                       [errors |-> PyList(<<PyDict([index |-> PyInt(0)])>>),
                        totalErrors |-> PyInt(1), owner |-> PyStr("org_1")]
                  [] c.res = "verify" -> VerificationFull
        full == min @@ rest
        kept == {DOMAIN min} \cup {DOMAIN min \ {k} : k \in DOMAIN min}
        nested ==
            CASE c.res = "contacts.lists" /\ c.op = "get" ->
                   {ContactListMin @@ [contacts |-> PyList(<<>>)],
                    ContactListMin @@
                      [contacts |-> PyList(<<PyDict([id |-> PyStr("cnt_1")])>>)]}
              [] c.res = "contacts" /\ c.op = "get" ->
                   {ContactMin @@ [lists |-> PyList(<<>>)],
                    ContactMin @@
                      [lists |-> PyList(<<PyDict([id |-> PyStr("lst_1")])>>)]}
              [] OTHER -> {}
    IN {[k \in R \cup T |-> full[k]] :
          R \in kept, T \in NearSubsets(DOMAIN full \ DOMAIN min, MaxOmitted)}
       \cup nested

InvokeReshape(t) == \E c \in ReshapeCalls : Invoke(t, c)

\* a successful response to request() carrying one of these mappings
RespondShape(t) ==
    /\ Awaiting(t, "request")
    /\ \E h \in HeaderSets, b \in ShapeBodies(call[t]) :
         LET p == HttpClient_parse_response(
                    [status_code |-> 200, headers |-> h, body |-> b])
         IN /\ rate_limit' = IF Http(call[t]) = HttpClient
                             THEN HttpClient_update_rate_limit_info(h)
                             ELSE rate_limit
            /\ last_headers' = h
            /\ data' = [data EXCEPT ![t] = p.value]
    /\ ip' = [ip EXCEPT ![t] = @ + 1]
    /\ status' = [status EXCEPT ![t] = "run"]
    /\ running' = t
    /\ UNCHANGED <<previewed, mode, facades, api_key, client_headers, tasks, call,
                   wire, response, outcome, transport_error>>

NextReshape ==
    \E t \in Tasks :
        \/ InvokeReshape(t)
        \/ IssueRequest(t)
        \/ RespondShape(t)
        \/ TransformStep(t)
        \/ Finish(t)

\* one caller reading single objects, the service answering any of ShapeBodies
SpecReshape == Init /\ [][NextReshape]_vars

----------------------------------------------------------------------------
(* Properties *)

\* the requests the invocation of task t has put on the wire
Sent(t) == {wire[t][i] : i \in 1..Len(wire[t])}

IsCall(t, res, op) ==
    /\ t \in tasks
    /\ status[t] # "idle"
    /\ call[t].res = res
    /\ call[t].op = op

\* keys of the JSON body and of the query params of the request w
SentKeys(w) ==
    (IF w.json = None THEN {} ELSE DOMAIN w.json.v)
    \cup (IF w.params = None THEN {} ELSE DOMAIN w.params.v)

\* the spellings under which the parameter p may appear on the wire
WireNames(p) ==
    {p} \cup (CASE p = "template_id" -> {"templateId"}
                [] p = "contact_list_ids" -> {"contactListIds"}
                [] p = "list_id" -> {"listId"}
                [] p = "opted_in_at" -> {"optedInAt"}
                [] p = "scheduled_at" -> {"scheduledAt"}
                [] OTHER -> {})

\* no value of the mapping m, nor of a mapping nested in it, is None
NoNull(m) ==
    m # None =>
      \A k \in DOMAIN m.v :
        /\ m.v[k] # None
        /\ m.v[k].t = "dict" => \A kk \in DOMAIN m.v[k].v : m.v[k].v[kk] # None
        /\ m.v[k].t = "list" =>
             \A j \in DOMAIN m.v[k].v :
               LET e == m.v[k].v[j]
               IN e.t = "dict" => \A kk \in DOMAIN e.v : e.v[kk] # None

\* C1: in every request a campaigns, contacts, contact-lists or verify method
\* (sync or async) hands to the transport, a parameter the caller left at
\* None has no key in the JSON body or the query params, and no key carries
\* a None value.
C1_OmitAbsent ==
    \A t \in tasks :
      (status[t] # "idle" /\ call[t].res # "media") =>
        \A w \in Sent(t) :
          /\ \A p \in DOMAIN call[t].args :
               call[t].args[p] = None => WireNames(p) \cap SentKeys(w) = {}
          /\ NoNull(w.json)
          /\ NoNull(w.params)

C1_Witness ==
    \E t \in tasks :
      /\ IsCall(t, "verify", "send")
      /\ status[t] = "await"
      /\ call[t].args.template_id = None
      /\ call[t].args.timeout_secs = None
      /\ \E w \in Sent(t) : DOMAIN w.json.v = {"to", "app_name", "code_length"}

\* C2: an invocation of a facade method puts exactly one request on the
\* wire: none before it is issued, one while it is pending and one when the
\* method has returned or raised, never two; the request of campaigns.send
\* is the same whether or not a preview of the campaign has returned before.
C2_ExactlyOneCall ==
    \A t \in tasks :
      /\ Len(wire[t]) <= 1
      /\ status[t] \in {"await", "returned", "raised"} => Len(wire[t]) = 1
      /\ (IsCall(t, "campaigns", "send") /\ Len(wire[t]) > 0) =>
           wire[t][1] =
             [method |-> "POST",
              path |-> "/campaigns/" \o call[t].args.campaign_id.v \o "/send",
              json |-> None, params |-> None, files |-> None,
              headers |-> HttpClient_headers, http |-> HttpClient]

C2_Witness ==
    \E t \in tasks :
      /\ IsCall(t, "campaigns", "send")
      /\ call[t].args.campaign_id \in previewed
      /\ status[t] = "raised"
      /\ Len(wire[t]) = 1

\* C3: when the transport raised an error during an invocation, the
\* invocation ends raising that very error; no typed result is returned.
C3_TransportErrorUnchanged ==
    \A t \in tasks :
      transport_error[t] # None =>
        /\ status[t] = "raised"
        /\ outcome[t] = Raise(transport_error[t])

C3_Witness ==
    \E t \in tasks :
      /\ IsCall(t, "media", "upload")
      /\ status[t] = "raised"
      /\ transport_error[t] # None
      /\ transport_error[t].type = "RateLimitError"
      /\ outcome[t] = Raise(transport_error[t])

\* C4: in media upload, once the response is about to be parsed, has been
\* parsed, or the upload has returned or raised for it, the rate-limit state
\* is the snapshot of that response's headers (the update precedes parsing
\* and so precedes any error raised for the response).
C4_RateLimitBeforeParse ==
    \A t \in tasks :
      (IsCall(t, "media", "upload") /\ response[t] # None
       /\ running = t
       /\ \/ status[t] \in {"returned", "raised"}
          \/ AtStmt(t, "_parse_response")
          \/ AtStmt(t, "MediaFile")) =>
        rate_limit = HttpClient_update_rate_limit_info(response[t].headers)

C4_Witness ==
    \E t \in tasks :
      /\ IsCall(t, "media", "upload")
      /\ status[t] = "raised"
      /\ response[t] # None
      /\ response[t].status_code = 429
      /\ outcome[t].error.type = "RateLimitError"
      /\ rate_limit = HttpClient_update_rate_limit_info(response[t].headers)

\* C5: with several uploads in flight on one async client, whenever no task
\* stands between the receipt of its response and the update, the
\* rate-limit state is exactly the snapshot of the response received last
\* (None before the first response); it is always a snapshot some response
\* carried, never a mixture.
C5_LastResponseWins ==
    /\ rate_limit \in
         {None} \cup {HttpClient_update_rate_limit_info(h) : h \in HeaderSets}
    /\ (\A t \in tasks : ~AtStmt(t, "_update_rate_limit_info")) =>
         IF last_headers = None THEN rate_limit = None
         ELSE rate_limit = HttpClient_update_rate_limit_info(last_headers)

C5_Witness ==
    \E t1, t2 \in tasks :
      /\ t1 # t2
      /\ status[t1] = "await"
      /\ status[t2] \in {"returned", "raised"}
      /\ response[t2] # None
      /\ response[t2].headers = RateLimitHeaders(200, 0, 30)
      /\ rate_limit = [limit |-> 200, remaining |-> 0, reset |-> 30]

\* what the last statement of the body prog yields for the parsed mapping d
SyncFinal(prog, d) ==
    LET s == prog[Len(prog)]
    IN CASE s.stmt = "transform" -> Reshape(s.kind, d)
         [] s.stmt = "MediaFile" ->
              LET o == MediaFile(d)
              IN IF o.kind = "raise"
                 THEN Raise(MediaResource_upload_except(s, o.error)) ELSE o
         [] OTHER -> Return(None)

AsyncFinal(prog, d) ==
    LET s == prog[Len(prog)]
    IN CASE s.stmt = "transform" -> Reshape(s.kind, d)
         [] s.stmt = "MediaFile" ->
              LET o == MediaFile(d)
              IN IF o.kind = "raise"
                 THEN Raise(AsyncMediaResource_upload_except(s, o.error))
                 ELSE o
         [] OTHER -> Return(None)

\* C6: for the arguments of any invocation, the sync and the async variant
\* of the method have bodies of the same statements issuing the same
\* request (method, path, JSON body, params, files, headers); for the
\* mapping parsed from the response they yield the same typed result or the
\* same error, and they let the same error out for a transport error.
C6_SyncAsyncSame ==
    \A t \in tasks :
      status[t] # "idle" =>
        LET sp == SyncProgram(call[t])
            ap == AsyncProgram(call[t])
        IN /\ Len(sp) = Len(ap)
           /\ \A i \in 1..Len(sp) :
                IF sp[i].stmt = "transform" THEN ap[i].stmt = "transform"
                ELSE sp[i] = ap[i]
           /\ data[t] # None => SyncFinal(sp, data[t]) = AsyncFinal(ap, data[t])
           /\ transport_error[t] # None =>
                MediaResource_upload_except(sp[ip[t]], transport_error[t])
                = AsyncMediaResource_upload_except(ap[ip[t]],
                                                   transport_error[t])

C6_Witness ==
    \E t \in tasks :
      /\ mode = "async"
      /\ IsCall(t, "verify", "list")
      /\ call[t].args.limit = PyInt(0)
      /\ call[t].args.status = None
      /\ status[t] = "returned"
      /\ Len(outcome[t].value.fields.verifications) = 2

\* C7: the request of a media upload carries exactly one multipart part,
\* named `file`, whose content type is the caller's content_type argument,
\* and no JSON body.
C7_SingleFilePart ==
    \A t \in tasks :
      IsCall(t, "media", "upload") =>
        \A w \in Sent(t) :
          /\ DOMAIN w.files = {"file"}
          /\ w.files["file"][3] = call[t].args.content_type
          /\ w.files["file"][2] = call[t].args.file
          /\ w.json = None

C7_Witness ==
    \E t \in tasks :
      /\ IsCall(t, "media", "upload")
      /\ call[t].args.content_type = "image/png"
      /\ status[t] = "await"
      /\ \E w \in Sent(t) : w.path = "/media" /\ w.files["file"][1] = "upload"

\* C8: every request put on the wire, the media upload included, carries
\* `Authorization: Bearer <api_key>` with the key of the client,
\* `Accept: application/json` and the client's User-Agent.
C8_AuthOnEveryRequest ==
    \A t \in tasks :
      \A w \in Sent(t) :
        /\ {"Authorization", "Accept", "User-Agent"} \subseteq DOMAIN w.headers
        /\ w.headers["Authorization"] = "Bearer " \o api_key
        /\ w.headers["Accept"] = "application/json"
        /\ w.headers["User-Agent"] = client_headers["User-Agent"]

C8_Witness ==
    \E t \in tasks :
      /\ IsCall(t, "media", "upload")
      /\ api_key = "sk_test_v1_b"
      /\ \E w \in Sent(t) :
           w.headers["Authorization"] = "Bearer sk_test_v1_b"

\* C9: campaigns.list with a non-zero limit, offset=0 and status=None sends
\* query params holding the key `limit` only, with the caller's limit.
C9_ListOmitsFalsyOffset ==
    \A t \in tasks :
      (/\ IsCall(t, "campaigns", "list")
       /\ Truthy(call[t].args.limit)
       /\ call[t].args.offset = PyInt(0)
       /\ call[t].args.status = None) =>
        \A w \in Sent(t) :
          /\ w.method = "GET"
          /\ w.path = "/campaigns"
          /\ w.params = PyDict([limit |-> call[t].args.limit])

C9_Witness ==
    \E t \in tasks :
      /\ IsCall(t, "campaigns", "list")
      /\ call[t].args.limit = PyInt(10)
      /\ call[t].args.offset = PyInt(0)
      /\ call[t].args.status = None
      /\ \E w \in Sent(t) : DOMAIN w.params.v = {"limit"}

\* C10: campaigns.create without template_id sends POST /campaigns with a
\* body of exactly the keys name, text and contactListIds, holding the
\* caller's values, and no templateId key.
C10_CreateBody ==
    \A t \in tasks :
      (IsCall(t, "campaigns", "create") /\ call[t].args.template_id = None) =>
        \A w \in Sent(t) :
          /\ w.method = "POST"
          /\ w.path = "/campaigns"
          /\ w.params = None
          /\ w.json = PyDict([name |-> call[t].args.name,
                              text |-> call[t].args.text,
                              contactListIds |-> call[t].args.contact_list_ids])

C10_Witness ==
    \E t \in tasks :
      /\ IsCall(t, "campaigns", "create")
      /\ call[t].args.template_id = None
      /\ call[t].args.contact_list_ids = PyList(<<PyStr("lst_1")>>)
      /\ \E w \in Sent(t) :
           DOMAIN w.json.v = {"name", "text", "contactListIds"}

\* the key under which a list endpoint answers its items
ItemsKey(c) ==
    CASE c.res = "campaigns" -> "campaigns"
      [] c.res = "contacts" -> "contacts"
      [] c.res = "contacts.lists" -> "lists"
      [] c.res = "verify" -> "verifications"

\* task t has returned from a list method
ListReturned(t) ==
    /\ t \in tasks
    /\ status[t] = "returned"
    /\ call[t].op = "list"

\* the ids of the elements of a sequence of JSON mappings / of typed objects
SourceIds(items) == [i \in DOMAIN items |-> items[i].v["id"]]
ResultIds(items) == [i \in DOMAIN items |-> items[i].fields.id]

ListResponseType(c) ==
    CASE c.res = "campaigns" -> "CampaignListResponse"
      [] c.res = "contacts" -> "ContactListResponse"
      [] c.res = "contacts.lists" -> "ContactListsResponse"
      [] c.res = "verify" -> "VerificationListResponse"

\* C12 as stated: every list operation (campaigns.list, contacts.list,
\* contacts.lists.list, verify.list) returns a typed response that bundles the
\* items with the pagination metadata total, limit and offset (as fields of
\* the response or inside its pagination mapping).
C12_AllListsPaginated ==
    \A t \in tasks :
      ListReturned(t) =>
        /\ "fields" \in DOMAIN outcome[t].value
        /\ ItemsKey(call[t]) \in DOMAIN outcome[t].value.fields
        /\ \/ {"total", "limit", "offset"}
                \subseteq DOMAIN outcome[t].value.fields
           \/ "pagination" \in DOMAIN outcome[t].value.fields

\* C12 (amended): no list operation returns a bare collection: each returns
\* its typed list response holding the items under the endpoint's key;
\* campaigns.list and contacts.list bundle exactly total, limit and offset
\* with them, verify.list bundles the pagination mapping of the source JSON,
\* and contacts.lists.list bundles nothing besides the lists.
C12_ListBundles ==
    \A t \in tasks :
      ListReturned(t) =>
        /\ "fields" \in DOMAIN outcome[t].value
        /\ outcome[t].value.type = ListResponseType(call[t])
        /\ DOMAIN outcome[t].value.fields =
             {ItemsKey(call[t])} \cup
             (CASE call[t].res \in {"campaigns", "contacts"} ->
                     {"total", "limit", "offset"}
                [] call[t].res = "verify" -> {"pagination"}
                [] call[t].res = "contacts.lists" -> {})

C12_Witness ==
    \E t \in tasks :
      /\ ListReturned(t)
      /\ call[t].res = "contacts.lists"
      /\ Len(data[t]["lists"].v) = 2
      /\ outcome[t].value.type = "ContactListsResponse"
      /\ DOMAIN outcome[t].value.fields = {"lists"}

\* the invocation of task t raised while reshaping a successful response:
\* the transport handed over the mapping and raised nothing
ReshapeFailed(t) ==
    /\ t \in tasks
    /\ status[t] = "raised"
    /\ transport_error[t] = None

\* C13: whenever a successful response does not match the expected typed
\* shape (a required field is missing), the facade method that reshapes it
\* raises the library's validation-kind error (SendlyError with code
\* invalid_response) whose message includes the underlying failure; no raw
\* KeyError or parser exception reaches the caller, in any facade.
C13_MalformedRaisesValidation ==
    \A t \in tasks :
      ReshapeFailed(t) =>
        /\ outcome[t].error.type = "SendlyError"
        /\ outcome[t].error.code = "invalid_response"
        /\ outcome[t].error.status_code = 200
        /\ Len(outcome[t].error.message) = 2

\* the invocation of task t got a successful response and has finished
\* reshaping it into a single object (or failed to)
Reshaped(t) ==
    /\ t \in tasks
    /\ status[t] \in {"returned", "raised"}
    /\ transport_error[t] = None
    /\ call[t].op \notin {"list", "delete", "remove_contact", "upload"}

\* the fields of the response without which the typed object cannot be built
RequiredFields(c) ==
    CASE c.res = "campaigns" /\ c.op = "preview" ->
           {"id", "recipient_count", "estimated_segments",
            "estimated_credits", "current_balance", "has_enough_credits"}
      [] c.res = "campaigns" /\ c.op # "preview" ->
           {"id", "name", "text", "status", "created_at", "updated_at"}
      [] c.res = "contacts.lists" /\ c.op = "add_contacts" -> {"added_count"}
      [] c.res = "contacts.lists" /\ c.op # "add_contacts" ->
           {"id", "name", "created_at"}
      [] c.res = "contacts" /\ c.op = "import_contacts" ->
           {"imported", "skippedDuplicates"}
      [] c.res = "contacts" /\ c.op # "import_contacts" ->
           {"id", "phone_number", "created_at"}
      [] c.res = "verify" /\ c.op = "send" ->
           {"id", "status", "phone", "expires_at", "sandbox"}
      [] c.res = "verify" /\ c.op = "check" -> {"id", "status", "phone"}
      [] c.res = "verify" /\ c.op = "get" ->
           {"id", "status", "phone", "delivery_status", "attempts",
            "max_attempts", "expires_at", "created_at", "sandbox"}

\* the fields a member of a non-empty nested collection of d lacks
NestedAbsent(c, d) ==
    LET key == IF c.res = "contacts.lists" THEN "contacts" ELSE "lists"
        req == IF c.res = "contacts.lists" THEN {"id", "phone_number"}
               ELSE {"id", "name"}
    IN IF /\ c.res \in {"contacts.lists", "contacts"}
          /\ c.op \notin {"add_contacts", "import_contacts"}
          /\ key \in DOMAIN d
          /\ Truthy(d[key])
       THEN UNION {req \ DOMAIN d[key].v[i].v : i \in DOMAIN d[key].v}
       ELSE {}

\* the optional fields of the response and the value the typed object takes
\* for each when the response lacks it: counts and credits zero,
\* contact_list_ids and errors the empty list, opted_out false, every other
\* optional field (timestamps, strings, mappings, nested collections,
\* contacts_total, remaining_attempts) absent
OptionalDefaults(c) ==
    CASE c.res = "campaigns" /\ c.op = "preview" -> [breakdown |-> None]
      [] c.res = "campaigns" /\ c.op # "preview" ->
           [template_id |-> None, contact_list_ids |-> PyList(<<>>),
            recipient_count |-> PyInt(0), sent_count |-> PyInt(0),
            delivered_count |-> PyInt(0), failed_count |-> PyInt(0),
            estimated_credits |-> PyInt(0), credits_used |-> PyInt(0),
            scheduled_at |-> None, timezone |-> None, started_at |-> None,
            completed_at |-> None]
      [] c.res = "contacts.lists" /\ c.op = "add_contacts" -> <<>>
      [] c.res = "contacts.lists" /\ c.op # "add_contacts" ->
           [description |-> None, contact_count |-> PyInt(0),
            updated_at |-> None, contacts |-> None, contacts_total |-> None]
      [] c.res = "contacts" /\ c.op = "import_contacts" ->
           [errors |-> PyList(<<>>), totalErrors |-> PyInt(0)]
      [] c.res = "contacts" /\ c.op # "import_contacts" ->
           [name |-> None, email |-> None, metadata |-> None,
            opted_out |-> PyBool(FALSE), updated_at |-> None,
            lists |-> None]
      [] c.res = "verify" /\ c.op = "send" ->
           [sandbox_code |-> None, message |-> None]
      [] c.res = "verify" /\ c.op = "check" ->
           [verified_at |-> None, remaining_attempts |-> None]
      [] c.res = "verify" /\ c.op = "get" ->
           [verified_at |-> None, app_name |-> None, template_id |-> None,
            profile_id |-> None]

\* the field of the typed object that holds the response field k
ResultField(k) ==
    CASE k = "skippedDuplicates" -> "skipped_duplicates"
      [] k = "totalErrors" -> "total_errors"
      [] OTHER -> k

\* C14: reshaping a response mapping into a typed object succeeds exactly
\* when the mapping holds the required fields (those of a member of a
\* non-empty nested collection included), whatever optional and extra fields
\* it holds; each optional field the mapping lacks takes its default (counts
\* and credits zero, contact_list_ids the empty list, opted_out false,
\* timestamps and strings absent); and a failure is the KeyError of a
\* required field that is absent.
C14_ReshapeTolerant ==
    \A t \in tasks :
      Reshaped(t) =>
        LET c == call[t]
            d == data[t]
            absent == (RequiredFields(c) \ DOMAIN d) \cup NestedAbsent(c, d)
        IN /\ (status[t] = "returned") <=> (absent = {})
           /\ status[t] = "returned" =>
                \A k \in DOMAIN OptionalDefaults(c) \ DOMAIN d :
                  outcome[t].value.fields[ResultField(k)]
                    = OptionalDefaults(c)[k]
           /\ status[t] = "raised" =>
                /\ outcome[t].error.type = "KeyError"
                /\ outcome[t].error.key \in absent

C14_Witness ==
    \E t \in tasks :
      /\ Reshaped(t)
      /\ status[t] = "returned"
      /\ call[t].res = "campaigns"
      /\ DOMAIN data[t] = RequiredFields(call[t]) \cup {"owner"}
      /\ outcome[t].value.fields.recipient_count = PyInt(0)
      /\ outcome[t].value.fields.contact_list_ids = PyList(<<>>)
      /\ outcome[t].value.fields.scheduled_at = None

\* the fields of the object the invocation of task t returned
ResultFields(t) ==
    IF "fields" \in DOMAIN outcome[t].value THEN outcome[t].value.fields
    ELSE outcome[t].value.v

\* the invocation of task t has returned a single object built from `data`
ReshapedOk(t) == Reshaped(t) /\ status[t] = "returned"

\* the nested collection of the object c returns ("" when it has none)
NestedKey(c) ==
    CASE c.res = "contacts.lists" /\ c.op # "add_contacts" -> "contacts"
      [] c.res = "contacts" /\ c.op # "import_contacts" -> "lists"
      [] OTHER -> ""

\* C15 as stated: every field present both in the source mapping and in the
\* typed object built from it has the value of the source mapping, the nested
\* `lists` of a contact and `contacts` of a contact list included, also when
\* they are empty or their members carry further fields.
C15_RoundTrip ==
    \A t \in tasks :
      ReshapedOk(t) =>
        \A k \in DOMAIN data[t] :
          ResultField(k) \in DOMAIN ResultFields(t) =>
            ResultFields(t)[ResultField(k)] = data[t][k]

\* the member r of a nested collection of the typed object is the projection
\* of the source member s to the keys it holds: equal where s has the key,
\* None where it has not
Projected(r, s, keys) ==
    /\ DOMAIN r.v = keys
    /\ \A f \in keys :
         r.v[f] = (IF f \in DOMAIN s.v THEN s.v[f] ELSE None)

\* C15 (amended): every field present both in the source mapping and in the
\* typed object (skippedDuplicates and totalErrors under their snake_case
\* names) has the value of the source mapping, except the nested `lists` of a
\* contact and `contacts` of a contact list: a non-empty nested collection is
\* kept member by member, in order, each member projected to id and name
\* (resp. id, phone_number, name and email) with further fields dropped, and
\* an empty nested collection becomes None.
C15_RoundTripProjected ==
    \A t \in tasks :
      ReshapedOk(t) =>
        \A k \in DOMAIN data[t] :
          ResultField(k) \in DOMAIN ResultFields(t) =>
            LET r == ResultFields(t)[ResultField(k)]
                s == data[t][k]
            IN IF k # NestedKey(call[t]) THEN r = s
               ELSE IF ~Truthy(s) THEN r = None
               ELSE /\ r.t = "list"
                    /\ Len(r.v) = Len(s.v)
                    /\ \A i \in DOMAIN s.v :
                         Projected(r.v[i], s.v[i],
                                   IF k = "lists" THEN {"id", "name"}
                                   ELSE {"id", "phone_number", "name",
                                         "email"})

C15_Witness ==
    \E t \in tasks :
      /\ ReshapedOk(t)
      /\ call[t].res = "contacts"
      /\ {"lists", "email"} \subseteq DOMAIN data[t]
      /\ data[t]["lists"] =
           PyList(<<PyDict([id |-> PyStr("lst_1"), name |-> PyStr("VIP"),
                            contact_count |-> PyInt(1)])>>)
      /\ ResultFields(t).lists =
           PyList(<<PyDict([id |-> PyStr("lst_1"), name |-> PyStr("VIP")])>>)
      /\ ResultFields(t).email = data[t]["email"]

\* C16: when verify.check has returned, the remaining_attempts of its result
\* is None if the response lacks `remaining_attempts` (never zero), and the
\* value of the response, 0 included, if the response has it.
C16_RemainingAttempts ==
    \A t \in tasks :
      (ReshapedOk(t) /\ call[t].res = "verify" /\ call[t].op = "check") =>
        /\ outcome[t].value.type = "CheckVerificationResponse"
        /\ "remaining_attempts" \notin DOMAIN data[t] =>
             /\ outcome[t].value.fields.remaining_attempts = None
             /\ outcome[t].value.fields.remaining_attempts # PyInt(0)
        /\ "remaining_attempts" \in DOMAIN data[t] =>
             outcome[t].value.fields.remaining_attempts
               = data[t]["remaining_attempts"]

C16_Witness ==
    \E t \in tasks :
      /\ ReshapedOk(t)
      /\ call[t].res = "verify"
      /\ call[t].op = "check"
      /\ call[t].args.code = PyStr("123456")
      /\ "remaining_attempts" \notin DOMAIN data[t]
      /\ outcome[t].value.fields.remaining_attempts = None

\* the transports the facade objects refer to
TransportsInUse ==
    {facades.campaigns._http, facades.contacts._http,
     facades.contacts.lists._http, facades.verify._http,
     facades.media._http}

\* the invocation of task t has received a response from the service
GotResponse(t) ==
    /\ t \in tasks
    /\ status[t] \in {"run", "returned", "raised"}
    /\ wire[t] # <<>>
    /\ transport_error[t] # NetworkError

\* C17: at every moment of the parent's life, contacts.lists holds the very
\* transport instance of the contacts facade, which is the client's only
\* transport; every request of a contacts.lists call goes out on it, and once
\* such a call has its response the rate-limit state of that transport is the
\* snapshot of the response.
C17_ListsShareTransport ==
    /\ facades.contacts.lists._http = facades.contacts._http
    /\ TransportsInUse = {HttpClient}
    /\ \A t \in tasks :
         (t \in tasks /\ call[t] # None /\ call[t].res = "contacts.lists") =>
           /\ \A w \in Sent(t) : w.http = facades.contacts._http
           /\ GotResponse(t) =>
                rate_limit = HttpClient_update_rate_limit_info(last_headers)

C17_Witness ==
    \E t \in tasks :
      /\ IsCall(t, "contacts.lists", "create")
      /\ status[t] = "returned"
      /\ \E w \in Sent(t) : w.http = facades.contacts._http
      /\ rate_limit = [limit |-> 200, remaining |-> 0, reset |-> 30]

\* the value the request w carries under the key k
SentValue(w, k) ==
    IF w.json # None /\ k \in DOMAIN w.json.v THEN w.json.v[k]
    ELSE w.params.v[k]

\* the camelCase wire name of the argument p on the endpoints that write
\* campaigns or import contacts
CamelName(p) ==
    CASE p = "contact_list_ids" -> "contactListIds"
      [] p = "template_id" -> "templateId"
      [] p = "scheduled_at" -> "scheduledAt"
      [] p = "list_id" -> "listId"
      [] p = "opted_in_at" -> "optedInAt"

\* C18: a request of campaigns.create, update or schedule names
\* contact_list_ids, template_id and scheduled_at contactListIds, templateId
\* and scheduledAt, a request of contacts.import_contacts names list_id and
\* opted_in_at listId and optedInAt, never by the snake_case spelling; no
\* request of any method carries two spellings of one argument, and every
\* key it carries holds the value of the argument of that name (the contacts
\* of an import are the dumped items); campaign results read
\* contact_list_ids, template_id and scheduled_at, and import results read
\* skippedDuplicates and totalErrors.
C18_WireNames ==
    \A t \in tasks :
      (t \in tasks /\ status[t] # "idle") =>
        LET c == call[t]
            args == DOMAIN c.args
            camel == IF \/ c.res = "campaigns"
                        \/ c.res = "contacts" /\ c.op = "import_contacts"
                     THEN args \cap {"contact_list_ids", "template_id",
                                     "scheduled_at", "list_id", "opted_in_at"}
                     ELSE {}
        IN /\ \A w \in Sent(t) :
                /\ \A p \in camel :
                     /\ p \notin SentKeys(w)
                     /\ (c.args[p] # None /\ Truthy(c.args[p])) =>
                          CamelName(p) \in SentKeys(w)
                /\ \A p \in args :
                     Cardinality(WireNames(p) \cap SentKeys(w)) <= 1
                /\ \A k \in SentKeys(w) :
                     \E p \in args :
                       /\ k \in WireNames(p)
                       /\ p \in camel => k = CamelName(p)
                       /\ \/ SentValue(w, k) = c.args[p]
                          \/ c.op = "import_contacts" /\ k = "contacts"
           /\ (status[t] = "returned" /\ c.res = "campaigns"
               /\ c.op \notin {"list", "delete", "preview"}) =>
                \A f \in {"contact_list_ids", "template_id", "scheduled_at"} :
                  f \in DOMAIN data[t] =>
                    outcome[t].value.fields[f] = data[t][f]
           /\ (status[t] = "returned" /\ c.op = "import_contacts") =>
                /\ outcome[t].value.fields.skipped_duplicates
                     = data[t]["skippedDuplicates"]
                /\ "totalErrors" \in DOMAIN data[t] =>
                     outcome[t].value.fields.total_errors
                       = data[t]["totalErrors"]

C18_Witness ==
    \E t \in tasks :
      /\ IsCall(t, "contacts", "import_contacts")
      /\ status[t] = "returned"
      /\ \E w \in Sent(t) :
           /\ {"listId", "optedInAt"} \subseteq DOMAIN w.json.v
           /\ w.json.v["listId"] = PyStr("lst_1")
      /\ "totalErrors" \in DOMAIN data[t]
      /\ outcome[t].value.fields.total_errors = PyInt(1)

\* one invocation of every facade method
MethodProbe ==
    {c \in JsonCalls \cup MediaCalls :
       c = CHOOSE d \in JsonCalls \cup MediaCalls :
             d.res = c.res /\ d.op = c.op}

\* the positions of the body prog at which the method awaits the network
SuspensionPoints(prog) ==
    {i \in DOMAIN prog : prog[i].stmt \in {"request", "post"}}

\* C19: the body of every async facade method awaits exactly once, at the
\* network call that is its first statement; a task is suspended only there,
\* with its request sent and no response yet, and from the receipt of the
\* response until the method has returned or raised (rate-limit update,
\* parsing, reshaping and the raising of an error included) the task keeps
\* the event loop, so no other task runs in between.
C19_SingleSuspension ==
    /\ \A c \in MethodProbe : SuspensionPoints(AsyncProgram(c)) = {1}
    /\ \A t \in tasks :
         /\ status[t] = "await" =>
              /\ Len(wire[t]) = 1
              /\ response[t] = None
              /\ ip[t] \in SuspensionPoints(AsyncProgram(call[t]))
         /\ (status[t] \in {"run", "returned", "raised"}) => running = t
         /\ (response[t] # None \/ outcome[t] # None) => running = t
    /\ running # 0 =>
         \A u \in tasks \ {running} : status[u] \in {"idle", "await"}

C19_Witness ==
    \E t, u \in tasks :
      /\ t # u
      /\ mode = "async"
      /\ status[u] = "await"
      /\ AtStmt(t, "_update_rate_limit_info")
      /\ response[t] # None
      /\ response[t].status_code = 429

\* the request (HTTP method, path, body, params, files) the method invoked
\* by c builds
RequestOf(c) ==
    LET s == (IF mode = "sync" THEN SyncProgram(c) ELSE AsyncProgram(c))[1]
    IN [method |-> s.method, path |-> s.path, json |-> s.json,
        params |-> s.params,
        files |-> IF "files" \in DOMAIN s THEN s.files ELSE None]

\* one invocation of the create, send and upload methods of every facade
WriteProbe == {c \in MethodProbe : c.op \in {"create", "send", "upload"}}

\* C20: the facades keep nothing but their transport reference: no step of
\* any facade call, successful or failed, changes the request that a method
\* builds for given arguments (checked for one create, send and upload of
\* every facade and for the invocations in progress), so it is the same after
\* any sequence of
\* earlier calls and responses; the request an invocation has put on the wire
\* is that request; and no step changes the API key or the headers of the
\* transport, or the transport reference of a facade.
C20_Stateless ==
    /\ [](\A t \in tasks :
            (status[t] # "idle" /\ wire[t] # <<>>) =>
              LET w == wire[t][1]
              IN [method |-> w.method, path |-> w.path, json |-> w.json,
                  params |-> w.params, files |-> w.files]
                 = RequestOf(call[t]))
    /\ [][/\ \A c \in WriteProbe : RequestOf(c)' = RequestOf(c)
          /\ \A t \in tasks :
               (status[t] # "idle" /\ call[t]' = call[t]) =>
                 RequestOf(call[t])' = RequestOf(call[t])
          /\ api_key' = api_key
          /\ client_headers' = client_headers
          /\ facades' = facades]_vars

C20_Witness ==
    \E t \in tasks :
      /\ IsCall(t, "campaigns", "send")
      /\ call[t].args.campaign_id \in previewed
      /\ rate_limit = [limit |-> 200, remaining |-> 0, reset |-> 30]
      /\ status[t] = "await"
      /\ wire[t][1].path = "/campaigns/cmp_1/send"
      /\ wire[t][1].params = None

\* the arguments of the invocation c that the method declares Optional
\* with the default None
OptionalArgs(c) ==
    CASE c.op = "update" ->
           DOMAIN c.args \ {"campaign_id", "contact_id", "list_id"}
      [] c.res = "campaigns" /\ c.op = "create" -> {"template_id"}
      [] c.res = "campaigns" /\ c.op = "schedule" -> {"timezone"}
      [] c.res = "contacts.lists" /\ c.op = "create" -> {"description"}
      [] c.res = "contacts" /\ c.op = "create" -> {"name", "email", "metadata"}
      [] c.res = "contacts" /\ c.op = "import_contacts" ->
           {"list_id", "opted_in_at"}
      [] c.res = "verify" /\ c.op = "send" -> DOMAIN c.args \ {"to"}
      [] c.res # "contacts.lists" /\ c.op = "list" -> DOMAIN c.args
      [] OTHER -> {}

\* the request w carries the argument p of the invocation c under one of
\* its wire names, with the caller's value
Carries(w, c, p) ==
    \E k \in WireNames(p) \cap SentKeys(w) : SentValue(w, k) = c.args[p]

\* the request w has no key for the argument p
Drops(w, p) == WireNames(p) \cap SentKeys(w) = {}

\* C21: in the request of an update method (campaigns, contacts,
\* contacts.lists) an optional argument has its key, with the caller's
\* value, exactly when it is not None, so an empty string, list or mapping
\* is sent; in the request of a create, send, schedule, import or list
\* method an optional argument has its key exactly when it is truthy, so an
\* empty or zero value is dropped.
C21_UpdateNotNoneElseTruthy ==
    \A t \in tasks :
      (status[t] # "idle" /\ call[t].res # "media") =>
        \A w \in Sent(t) :
          \A p \in OptionalArgs(call[t]) :
            LET a == call[t].args[p]
                kept == IF call[t].op = "update" THEN a # None ELSE Truthy(a)
            IN /\ kept => Carries(w, call[t], p)
               /\ ~kept => Drops(w, p)

C21_Witness ==
    \E t \in tasks :
      /\ IsCall(t, "campaigns", "update")
      /\ status[t] = "returned"
      /\ call[t].args.name = PyStr("")
      /\ call[t].args.text = None
      /\ call[t].args.template_id = PyStr("tpl_1")
      /\ call[t].args.contact_list_ids = PyList(<<>>)
      /\ \E w \in Sent(t) :
           w.json = PyDict([name |-> PyStr(""), templateId |-> PyStr("tpl_1"),
                            contactListIds |-> PyList(<<>>)])

\* the optional query filters of the invocation c; empty for a method that
\* takes none
Filters(c) ==
    CASE c.res # "contacts.lists" /\ c.op = "list" -> DOMAIN c.args
      [] c.res = "contacts.lists" /\ c.op = "get" -> {"limit", "offset"}
      [] OTHER -> {}

\* the filters of the invocation c that are truthy
TruthyFilters(c) == {p \in Filters(c) : Truthy(c.args[p])}

\* the keys of the params argument of the request w, None counting as none
ParamKeys(w) == IF w.params = None THEN {} ELSE DOMAIN w.params.v

\* C22 as stated: in every request of campaigns.list, contacts.list,
\* contacts.lists.get and verify.list the params argument is None when no
\* filter is truthy and a non-empty mapping otherwise; an empty mapping is
\* never handed to the transport.
C22_ParamsNoneOrNonEmpty ==
    \A t \in tasks :
      (status[t] # "idle" /\ Filters(call[t]) # {}) =>
        \A w \in Sent(t) :
          /\ TruthyFilters(call[t]) = {} => w.params = None
          /\ TruthyFilters(call[t]) # {} => w.params # None
          /\ w.params # None => ParamKeys(w) # {}

\* C22: in every request of campaigns.list, contacts.list and
\* contacts.lists.get the params argument is None when no filter is truthy
\* and otherwise the mapping of the truthy filters; in every request of
\* verify.list the params argument is always a mapping, holding the truthy
\* filters, and it is the empty mapping when no filter is truthy.
C22_ParamsNoneExceptVerify ==
    \A t \in tasks :
      (status[t] # "idle" /\ Filters(call[t]) # {}) =>
        \A w \in Sent(t) :
          /\ ParamKeys(w) = TruthyFilters(call[t])
          /\ \A p \in ParamKeys(w) : w.params.v[p] = call[t].args[p]
          /\ call[t].res = "verify" => w.params # None
          /\ call[t].res # "verify" =>
               (TruthyFilters(call[t]) = {} <=> w.params = None)

C22_Witness ==
    \E t \in tasks :
      /\ IsCall(t, "verify", "list")
      /\ status[t] = "returned"
      /\ call[t].args.limit = PyInt(0)
      /\ call[t].args.status = PyStr("")
      /\ \E w \in Sent(t) :
           /\ w.path = "/verify"
           /\ w.params # None
           /\ w.params.t = "dict"
           /\ DOMAIN w.params.v = {}

====
